---- MODULE Spec2Model ----
(***************************************************************************)
(* Model of the Graph node of packages/core/src/graphs/graph/graph.ts:     *)
(* attribute record, the two lazily filled bbox caches, updateAttrs and    *)
(* the rotate / move operations built on it; of the path drawing tool of    *)
(* packages/core/src/tools/tool_draw_path.ts with the path, the path       *)
(* editor and the command manager it works on; and of the graph drawing    *)
(* tool of packages/core/src/tools/tool_draw_graph.ts.                     *)
(*                                                                         *)
(* Numbers.  Coordinates are integers.  Every width, height and stroke     *)
(* width is even, so that width / 2 and strokeWidth / 2 are exact.  Angles *)
(* are counted in quarter turns (HALF_PI is one unit), for which cos and   *)
(* sin are exactly 0, 1 or -1.                                             *)
(*                                                                         *)
(* Arrays.  A transform is a JavaScript array, i.e. a reference.  The      *)
(* variable heap maps a reference to the six numbers of the array and a    *)
(* node's attrs.transform holds a reference, so that two holders of one    *)
(* array see each other's in-place writes.                                 *)
(***************************************************************************)
EXTENDS Integers, Sequences, FiniteSets, TLC

VARIABLES nodes, heap, draw

vars == <<nodes, heap, draw>>

\* ---------------------------------------------------------------- bounds
\* largest |tx|, |ty| a transform of the model may take
MaxCoord == 1
\* largest number of keys in one partial attribute set
MaxKeys == 2

\* ------------------------------------------------------------- constants
Infinity == 1000000
HALF_PI == 1

Nodes == {1, 2}
Refs == {1, 2, 3}
ZeroT == <<0, 0, 0, 0, 0, 0>>

\* ------------------------------------------------------------ pixi Matrix
identityMatrix == <<1, 0, 0, 1, 0, 0>>

Cos(k) == CASE k % 4 = 0 -> 1 [] k % 4 = 1 -> 0 [] k % 4 = 2 -> -1 [] k % 4 = 3 -> 0
Sin(k) == CASE k % 4 = 0 -> 0 [] k % 4 = 1 -> 1 [] k % 4 = 2 -> 0 [] k % 4 = 3 -> -1

\* Matrix.apply(pos)
apply(tf, pos) ==
  [x |-> tf[1] * pos.x + tf[3] * pos.y + tf[5],
   y |-> tf[2] * pos.x + tf[4] * pos.y + tf[6]]

\* Matrix.translate(x, y)
translate(m, x, y) == <<m[1], m[2], m[3], m[4], m[5] + x, m[6] + y>>

\* Matrix.rotate(angle)
rotate(m, angle) ==
  LET cos == Cos(angle)
      sin == Sin(angle)
  IN <<m[1] * cos - m[2] * sin,
       m[1] * sin + m[2] * cos,
       m[3] * cos - m[4] * sin,
       m[3] * sin + m[4] * cos,
       m[5] * cos - m[6] * sin,
       m[5] * sin + m[6] * cos>>

\* this.append(matrix): this * matrix, i.e. matrix is applied first
append(this, matrix) ==
  <<matrix[1] * this[1] + matrix[2] * this[3],
    matrix[1] * this[2] + matrix[2] * this[4],
    matrix[3] * this[1] + matrix[4] * this[3],
    matrix[3] * this[2] + matrix[4] * this[4],
    matrix[5] * this[1] + matrix[6] * this[3] + this[5],
    matrix[5] * this[2] + matrix[6] * this[4] + this[6]>>

\* ------------------------------------------------------------ @suika/geo
\* the four corners of a rect, clockwise from the top left
rectToVertices(rect) ==
  <<[x |-> rect.x, y |-> rect.y],
    [x |-> rect.x + rect.width, y |-> rect.y],
    [x |-> rect.x + rect.width, y |-> rect.y + rect.height],
    [x |-> rect.x, y |-> rect.y + rect.height]>>

\* The angle of the image of the up vector (0, -1), in quarter turns.  It is
\* a whole number of quarter turns exactly when that image lies on an axis.
HasQuarterAngle(t) == (t[3] = 0 /\ t[4] # 0) \/ (t[4] = 0 /\ t[3] # 0)

getTransformAngle(t) ==
  CASE t[3] = 0 /\ t[4] > 0 -> 0
    [] t[4] = 0 /\ t[3] < 0 -> 1
    [] t[3] = 0 /\ t[4] < 0 -> 2
    [] t[4] = 0 /\ t[3] > 0 -> 3

\* ---------------------------------------------------------------- helpers
MathMin(a, b) == IF a < b THEN a ELSE b
MathMax(a, b) == IF a > b THEN a ELSE b
Half(v) == v \div 2

\* the array a node's attrs.transform refers to
TransformOf(s, n) == s.heap[s.nodes[n].attrs.transform]

\* new array: the smallest reference no node holds
Alloc(s) ==
  LET used == {s.nodes[m].attrs.transform : m \in Nodes}
  IN CHOOSE r \in Refs \ used : \A q \in Refs \ used : r <= q

\* Arrays no node refers to are garbage, and the live arrays are renumbered
\* in the order of the nodes: an address is not observable.
Collect(s) ==
  LET r1 == s.nodes[1].attrs.transform
      r2 == s.nodes[2].attrs.transform
      n2 == IF r2 = r1 THEN 1 ELSE 2
  IN [nodes |-> [s.nodes EXCEPT ![1].attrs.transform = 1, ![2].attrs.transform = n2],
      heap |-> [r \in Refs |-> CASE r = 1 -> s.heap[r1]
                                 [] r = 2 /\ n2 = 2 -> s.heap[r2]
                                 [] OTHER -> ZeroT]]

\* --------------------------------------------------------------- Graph
\* A transform argument is <<"ref", r>>, an array that already exists, or
\* <<"fresh", t>>, an array literal the caller builds for the call.
ValueOfTransformArg(s, arg) == IF arg[1] = "ref" THEN s.heap[arg[2]] ELSE arg[2]

\* this.attrs.transform = arg
StoreTransform(s, n, arg) ==
  IF arg[1] = "ref"
  THEN [s EXCEPT !.nodes[n].attrs.transform = arg[2]]
  ELSE LET r == Alloc(s)
       IN [s EXCEPT !.nodes[n].attrs.transform = r, !.heap[r] = arg[2]]

\* faulty variant (C9): the last vertex is left out of the reduction
_calcBbox_ThreeVertices(attrs, tf, padding) ==
  LET rv == rectToVertices([x |-> 0 - padding, y |-> 0 - padding,
                            width |-> attrs.width + padding * 2,
                            height |-> attrs.height + padding * 2])
      vertices == [i \in 1..3 |-> apply(tf, rv[i])]
      init == [minX |-> Infinity, minY |-> Infinity,
               maxX |-> 0 - Infinity, maxY |-> 0 - Infinity]
      step(b, v) == [minX |-> MathMin(b.minX, v.x), minY |-> MathMin(b.minY, v.y),
                     maxX |-> MathMax(b.maxX, v.x), maxY |-> MathMax(b.maxY, v.y)]
  IN step(step(step(init, vertices[1]), vertices[2]), vertices[3])

\* private _calcBbox(padding?)
_calcBbox(attrs, tf, padding) ==
  LET x == IF padding # 0 THEN 0 - padding ELSE 0
      y == IF padding # 0 THEN 0 - padding ELSE 0
      width == IF padding # 0 THEN attrs.width + padding * 2 ELSE attrs.width
      height == IF padding # 0 THEN attrs.height + padding * 2 ELSE attrs.height
      rv == rectToVertices([x |-> x, y |-> y, width |-> width, height |-> height])
      vertices == [i \in 1..4 |-> apply(tf, rv[i])]
      init == [minX |-> Infinity, minY |-> Infinity,
               maxX |-> 0 - Infinity, maxY |-> 0 - Infinity]
      step(b, v) == [minX |-> MathMin(b.minX, v.x), minY |-> MathMin(b.minY, v.y),
                     maxX |-> MathMax(b.maxX, v.x), maxY |-> MathMax(b.maxY, v.y)]
  IN step(step(step(step(init, vertices[1]), vertices[2]), vertices[3]), vertices[4])

getStrokeWidth(attrs) ==
  IF "strokeWidth" \in DOMAIN attrs THEN attrs.strokeWidth ELSE 0

\* getBbox(): the cache is filled on a miss and the cached box is returned
getBbox(s, n) ==
  IF s.nodes[n]._cacheBbox # <<>>
  THEN s
  ELSE [s EXCEPT !.nodes[n]._cacheBbox =
          <<_calcBbox(s.nodes[n].attrs, TransformOf(s, n), 0)>>]

getBboxWithStroke(s, n) ==
  IF s.nodes[n]._cacheBboxWithStroke # <<>>
  THEN s
  ELSE [s EXCEPT !.nodes[n]._cacheBboxWithStroke =
          <<_calcBbox(s.nodes[n].attrs, TransformOf(s, n),
                      Half(getStrokeWidth(s.nodes[n].attrs)))>>]

getCenter(s, n) ==
  apply(TransformOf(s, n),
        [x |-> Half(s.nodes[n].attrs.width), y |-> Half(s.nodes[n].attrs.height)])

getRotate(s, n) == getTransformAngle(TransformOf(s, n))

\* faulty variant (C4): any key at all invalidates
shouldUpdateBbox_AnyKey(attrs) == DOMAIN attrs # {}

shouldUpdateBbox(attrs) ==
  \/ "x" \in DOMAIN attrs
  \/ "y" \in DOMAIN attrs
  \/ "width" \in DOMAIN attrs
  \/ "height" \in DOMAIN attrs
  \/ "transform" \in DOMAIN attrs

\* faulty variant (C6): nothing is omitted
omit_Nothing(obj, keys) == obj

omit(obj, keys) == [k \in DOMAIN obj \ keys |-> obj[k]]

\* faulty variant (C3): only the geometry cache is cleared
ClearCaches_OnlyBbox(s, n) == [s EXCEPT !.nodes[n]._cacheBbox = <<>>]

\* this._cacheBbox = null; this._cacheBboxWithStroke = null
ClearCaches(s, n) ==
  [s EXCEPT !.nodes[n]._cacheBbox = <<>>, !.nodes[n]._cacheBboxWithStroke = <<>>]

\* faulty variant (C5): x and y are written whether or not a transform is supplied
WritePosition_IgnoringTransform(s, n, partialAttrs) ==
  LET r == s.nodes[n].attrs.transform
      s1 == IF "x" \in DOMAIN partialAttrs
            THEN [s EXCEPT !.heap[r][5] = partialAttrs.x]
            ELSE s
  IN IF "y" \in DOMAIN partialAttrs
     THEN [s1 EXCEPT !.heap[r][6] = partialAttrs.y]
     ELSE s1

\* if (!partialAttrs.transform) { transform[4] = x; transform[5] = y }
WritePosition(s, n, partialAttrs) ==
  LET r == s.nodes[n].attrs.transform
      s1 == IF "transform" \notin DOMAIN partialAttrs /\ "x" \in DOMAIN partialAttrs
            THEN [s EXCEPT !.heap[r][5] = partialAttrs.x]
            ELSE s
  IN IF "transform" \notin DOMAIN partialAttrs /\ "y" \in DOMAIN partialAttrs
     THEN [s1 EXCEPT !.heap[r][6] = partialAttrs.y]
     ELSE s1

\* the for-in loop of updateAttrs: every remaining key is assigned
AssignKeys(s, n, q) ==
  LET s1 == IF "transform" \in DOMAIN q THEN StoreTransform(s, n, q.transform) ELSE s
      old == s1.nodes[n].attrs
      plain == DOMAIN q \ {"transform"}
  IN [s1 EXCEPT !.nodes[n].attrs =
        [k \in DOMAIN old \cup plain |-> IF k \in plain THEN q[k] ELSE old[k]]]

RECURSIVE updateAttrs(_, _, _)

\* faulty variant (C10): the two translations are exchanged
setRotate_TranslationsSwapped(s, n, newRotate, center) ==
  LET rotate_ == getRotate(s, n)
      delta == newRotate - rotate_
      rotateMatrix == translate(rotate(translate(identityMatrix, center.x, center.y),
                                       delta),
                                0 - center.x, 0 - center.y)
      tf == TransformOf(s, n)
      newTf == append(rotateMatrix, tf)
  IN updateAttrs(s, n, [transform |-> <<"fresh", newTf>>])

\* faulty variant (C11): the node is turned by newRotate, not to newRotate
setRotate_ByNewRotate(s, n, newRotate, center) ==
  LET rotateMatrix == translate(rotate(translate(identityMatrix, 0 - center.x, 0 - center.y),
                                       newRotate),
                                center.x, center.y)
      tf == TransformOf(s, n)
      newTf == append(rotateMatrix, tf)
  IN updateAttrs(s, n, [transform |-> <<"fresh", newTf>>])

setRotate(s, n, newRotate, center) ==
  LET rotate_ == getRotate(s, n)
      delta == newRotate - rotate_
      rotateMatrix == translate(rotate(translate(identityMatrix, 0 - center.x, 0 - center.y),
                                       delta),
                                center.x, center.y)
      tf == TransformOf(s, n)
      newTf == append(rotateMatrix, tf)
  IN updateAttrs(s, n, [transform |-> <<"fresh", newTf>>])

updateAttrs(s, n, partialAttrs) ==
  LET s1 == IF shouldUpdateBbox(partialAttrs) THEN ClearCaches(s, n) ELSE s
      s2 == WritePosition(s1, n, partialAttrs)
      s3 == IF "rotate" \in DOMAIN partialAttrs
            THEN setRotate(s2, n, partialAttrs.rotate, getCenter(s2, n))
            ELSE s2
  IN AssignKeys(s3, n, omit(partialAttrs, {"x", "y", "rotate"}))

\* faulty variant (C14): the turn is composed on the live transform
dRotate_FromLive(s, n, dRotation, initTransform, center) ==
  LET rotateMatrix == translate(rotate(translate(identityMatrix, 0 - center.x, 0 - center.y),
                                       dRotation),
                                center.x, center.y)
      newTf == append(rotateMatrix, TransformOf(s, n))
  IN updateAttrs(s, n, [transform |-> <<"fresh", newTf>>])

dRotate(s, n, dRotation, initTransform, center) ==
  LET rotateMatrix == translate(rotate(translate(identityMatrix, 0 - center.x, 0 - center.y),
                                       dRotation),
                                center.x, center.y)
      newTf == append(rotateMatrix, initTransform)
  IN updateAttrs(s, n, [transform |-> <<"fresh", newTf>>])

RECURSIVE dMove(_, _, _, _)
dMove(s, graphs, dx, dy) ==
  IF graphs = <<>>
  THEN s
  ELSE LET graph == Head(graphs)
           transform == s.nodes[graph].attrs.transform
           s1 == [s EXCEPT !.heap[transform][5] = @ + dx, !.heap[transform][6] = @ + dy]
       IN dMove(updateAttrs(s1, graph, [transform |-> <<"ref", transform>>]),
                Tail(graphs), dx, dy)

toJSON(s, n) == s.nodes[n].attrs

\* @suika/geo isBoxIntersect, boxToRect, isRectIntersect: closed boxes
isBoxIntersect(box1, box2) ==
  /\ box1.minX <= box2.maxX
  /\ box1.maxX >= box2.minX
  /\ box1.minY <= box2.maxY
  /\ box1.maxY >= box2.minY

boxToRect(box) ==
  [x |-> box.minX, y |-> box.minY,
   width |-> box.maxX - box.minX, height |-> box.maxY - box.minY]

isRectIntersect(rect1, rect2) ==
  /\ rect1.x <= rect2.x + rect2.width
  /\ rect1.x + rect1.width >= rect2.x
  /\ rect1.y <= rect2.y + rect2.height
  /\ rect1.height + rect1.y >= rect2.y

Sign(v) == IF v > 0 THEN 1 ELSE IF v < 0 THEN -1 ELSE 0
Abs(v) == IF v < 0 THEN 0 - v ELSE v

\* Matrix.invert().  The entries of the inverse are fractions over the
\* determinant; they are kept as numerators num over the positive
\* denominator den.
invert(tf) ==
  LET n == tf[1] * tf[4] - tf[2] * tf[3]
      sg == Sign(n)
  IN [num |-> <<sg * tf[4], sg * (0 - tf[2]), sg * (0 - tf[3]), sg * tf[1],
                sg * (tf[3] * tf[6] - tf[4] * tf[5]),
                sg * (0 - (tf[1] * tf[6] - tf[2] * tf[5]))>>,
      den |-> Abs(n)]

\* the OBB branch of intersectWithBox: the box taken into the local frame
\* of the node, its bounding rect there against the local rect.  Lengths of
\* the local frame are numerators over inv.den.
ObbIntersect(attrs, tf, box) ==
  LET inv == invert(tf)
      rv == rectToVertices(boxToRect(box))
      sv == [i \in 1..4 |->
               [x |-> inv.num[1] * rv[i].x + inv.num[3] * rv[i].y + inv.num[5],
                y |-> inv.num[2] * rv[i].x + inv.num[4] * rv[i].y + inv.num[6]]]
      minX == MathMin(MathMin(sv[1].x, sv[2].x), MathMin(sv[3].x, sv[4].x))
      minY == MathMin(MathMin(sv[1].y, sv[2].y), MathMin(sv[3].y, sv[4].y))
      maxX == MathMax(MathMax(sv[1].x, sv[2].x), MathMax(sv[3].x, sv[4].x))
      maxY == MathMax(MathMax(sv[1].y, sv[2].y), MathMax(sv[3].y, sv[4].y))
      rotatedSelection == [x |-> minX, y |-> minY,
                           width |-> maxX - minX, height |-> maxY - minY]
  IN isRectIntersect(rotatedSelection,
                     [x |-> 0, y |-> 0,
                      width |-> attrs.width * inv.den, height |-> attrs.height * inv.den])

\* !rotate || rotate % HALF_PI == 0
IsQuarterTurn(tf) == HasQuarterAngle(tf)

\* faulty variant (C12): the OBB branch is left out
intersectWithBox_AabbOnly(s, n, box) ==
  LET s1 == getBbox(s, n)
  IN [state |-> s1, isIntersected |-> isBoxIntersect(box, s1.nodes[n]._cacheBbox[1])]

\* intersectWithBox(box): the state after the call and the value returned
intersectWithBox(s, n, box) ==
  LET s1 == getBbox(s, n)
  IN [state |-> s1,
      isIntersected |->
        IF ~isBoxIntersect(box, s1.nodes[n]._cacheBbox[1])
        THEN FALSE
        ELSE IF IsQuarterTurn(TransformOf(s1, n))
             THEN TRUE
             ELSE ObbIntersect(s1.nodes[n].attrs, TransformOf(s1, n), box)]

genId(n) == IF n = 1 THEN "gen1" ELSE "gen2"

\* constructor(attrs, opts): the node n built over the state s.  opts is a
\* record with some of the keys x, y; the empty record when absent.
Graph(s, n, attrs, opts) ==
  LET hasT == "transform" \in DOMAIN attrs
      arg == IF hasT THEN attrs.transform ELSE <<"fresh", identityMatrix>>
      a0 == [k \in (DOMAIN attrs \ {"transform"}) \cup {"transform"} |->
               IF k = "transform" THEN 0 ELSE attrs[k]]
      a1 == IF "id" \in DOMAIN a0 THEN a0
            ELSE [k \in DOMAIN a0 \cup {"id"} |-> IF k = "id" THEN genId(n) ELSE a0[k]]
      s0 == [s EXCEPT !.nodes[n] =
               [attrs |-> a1, _cacheBbox |-> <<>>, _cacheBboxWithStroke |-> <<>>]]
      s1 == StoreTransform(s0, n, arg)
      r == s1.nodes[n].attrs.transform
      s2 == IF ~hasT /\ "x" \in DOMAIN opts THEN [s1 EXCEPT !.heap[r][5] = opts.x] ELSE s1
      s3 == IF ~hasT /\ "y" \in DOMAIN opts THEN [s2 EXCEPT !.heap[r][6] = opts.y] ELSE s2
  IN s3

\* ------------------------------------------------------------- inputs
With(rec, k, v) == [x \in DOMAIN rec \cup {k} |-> IF x = k THEN v ELSE rec[x]]
\* P, and every record of P with fewer than MaxKeys keys extended by key k
Ext(P, k, V) ==
  P \cup {With(p, k, v) : p \in {q \in P : Cardinality(DOMAIN q) < MaxKeys}, v \in V}

Widths == {2, 4}
Heights == {2, 4}
Coords == {0, 1}
StrokeWidths == {2}
Angles == {0, 1}
Deltas == {0, 1}
\* a skew with a translation
TSet == {<<1, 1, 0, 1, 1, 0>>}
Centers == {[x |-> 0, y |-> 0]}
Empty == [x \in {} |-> 0]

\* the nodes the editing operations are invoked on; the other node is only
\* queried and moved
Targets == {1}

InRange(s) ==
  \A r \in Refs : /\ s.heap[r][5] \in (0 - MaxCoord)..MaxCoord
                   /\ s.heap[r][6] \in (0 - MaxCoord)..MaxCoord

\* the arrays a caller can reach: those the nodes hold
HeldArgs(s) == {<<"ref", s.nodes[m].attrs.transform>> : m \in Nodes}
FreshArgs == {<<"fresh", t>> : t \in TSet}

\* the partial attribute sets passed to updateAttrs: at most MaxKeys keys,
\* a transform being a fresh array or any array of Refs
AllPartials ==
  LET p1 == Ext({Empty}, "x", Coords)
      p2 == Ext(p1, "y", {1})
      p3 == Ext(p2, "width", Widths)
      p4 == Ext(p3, "height", Heights)
      p5 == Ext(p4, "transform", {<<"ref", r>> : r \in Refs} \cup FreshArgs)
      p6 == Ext(p5, "rotate", {1})
      p7 == Ext(p6, "strokeWidth", StrokeWidths)
      p8 == Ext(p7, "visible", {FALSE})
  IN p8 \ {Empty}

\* those whose transform, if any, is fresh or the array node n holds
PartialAttrs(s, n) ==
  {p \in AllPartials :
     "transform" \in DOMAIN p =>
        p.transform \in {<<"ref", s.nodes[n].attrs.transform>>} \cup FreshArgs}

\* the attribute records and options passed to the constructor
CtorAttrs ==
  LET base == {[width |-> w, height |-> h] : w \in Widths, h \in Heights}
      withT == base \cup {With(a, "transform", t) : a \in base, t \in FreshArgs}
  IN withT
CtorOpts == {Empty, [x |-> 1, y |-> 1]}

\* the editor before anything is drawn: the fields of a new DrawPathTool,
\* an inactive path editor, an empty command manager and an empty scene
NoDrawing ==
  [tool |-> [startPoint |-> <<>>, path |-> 0, prevAttrs |-> <<>>, pathIdx |-> 0],
   pathEditor |-> [active |-> FALSE, path |-> 0, selectedControl |-> <<>>],
   commandManager |-> [isBatching |-> FALSE, batchCommands |-> <<>>,
                       undoStack |-> <<>>, redoStack |-> <<>>],
   sceneGraph |-> {},
   selectedElements |-> <<>>,
   activeTool |-> "drawPath",
   cursor |-> "pen",
   isAltPressing |-> FALSE,
   pd |-> <<>>,
   log |-> <<>>,
   phase |-> "idle",
   gestures |-> 0,
   drags |-> 0]

NoState ==
  [nodes |-> [n \in Nodes |-> [attrs |-> [transform |-> 3],
                               _cacheBbox |-> <<>>, _cacheBboxWithStroke |-> <<>>]],
   heap |-> [r \in Refs |-> ZeroT]]

State == [nodes |-> nodes, heap |-> heap]

Becomes(s) ==
  LET c == Collect(s)
  IN nodes' = c.nodes /\ heap' = c.heap /\ draw' = draw

\* ----------------------------------------------------------------- Init
\* Every node holds an array of its own: node 1 is constructed from an
\* attribute record and options, node 2 from a record without a transform.
Init ==
  \E a1 \in CtorAttrs, o1 \in CtorOpts :
    LET s1 == Graph(NoState, 1, a1, o1)
        s2 == Collect(Graph(s1, 2, [width |-> 2, height |-> 2], Empty))
    IN nodes = s2.nodes /\ heap = s2.heap /\ draw = NoDrawing

\* Two nodes over one array: node 2 is constructed from node 1's toJSON()
\* record, or from a record that carries the array node 1 holds.
InitShared ==
  \E a1 \in CtorAttrs, o1 \in CtorOpts :
    LET s1 == Graph(NoState, 1, a1, o1)
        shared == <<"ref", s1.nodes[1].attrs.transform>>
        json == [toJSON(s1, 1) EXCEPT !.transform = shared]
    IN \E a2 \in {json, [width |-> 2, height |-> 2, transform |-> shared]} :
         LET s2 == Collect(Graph(s1, 2, a2, Empty))
         IN nodes = s2.nodes /\ heap = s2.heap /\ draw = NoDrawing

\* -------------------------------------------------------------- actions
\* Every action is one call; coordinates are capped at MaxCoord.
UpdateAttrs(n, p) ==
  LET s == updateAttrs(State, n, p)
  IN /\ "rotate" \in DOMAIN p => HasQuarterAngle(TransformOf(State, n))
     /\ InRange(Collect(s))
     /\ Becomes(s)

GetBbox(n) ==
  LET s == getBbox(State, n)
  IN /\ InRange(Collect(s))
     /\ Becomes(s)

GetBboxWithStroke(n) ==
  LET s == getBboxWithStroke(State, n)
  IN /\ InRange(Collect(s))
     /\ Becomes(s)

SetRotate(n, newRotate) ==
  LET s == setRotate(State, n, newRotate, getCenter(State, n))
  IN /\ HasQuarterAngle(TransformOf(State, n))
     /\ InRange(Collect(s))
     /\ Becomes(s)

SetRotateAbout(n, newRotate, center) ==
  LET s == setRotate(State, n, newRotate, center)
  IN /\ HasQuarterAngle(TransformOf(State, n))
     /\ InRange(Collect(s))
     /\ Becomes(s)

DRotate(n, d, init, center) ==
  LET s == dRotate(State, n, d, init, center)
  IN /\ InRange(Collect(s))
     /\ Becomes(s)

DMove(graphs, dx, dy) ==
  LET s == dMove(State, graphs, dx, dy)
  IN /\ InRange(Collect(s))
     /\ Becomes(s)

Next ==
  \/ \E n \in Targets : \E p \in PartialAttrs(State, n) : UpdateAttrs(n, p)
  \/ \E n \in Targets : GetBbox(n)
  \/ \E n \in Targets : GetBboxWithStroke(n)
  \/ \E n \in Targets, k \in Angles : SetRotate(n, k)
  \/ \E n \in Targets, k \in Angles, c \in Centers : SetRotateAbout(n, k, c)
  \/ \E n \in Targets, d \in Angles, t \in TSet, c \in Centers : DRotate(n, d, t, c)
  \/ \E dx \in Deltas, dy \in Deltas : DMove(<<1>>, dx, dy)

Spec == Init /\ [][Next]_vars

\* the partial attribute sets of the shared-array scenario
SharedPartials(s) ==
  {[x |-> 1], [y |-> 1], [x |-> 0, y |-> 0], [width |-> 4], [id |-> "b"]}
  \cup {[transform |-> a] : a \in HeldArgs(s) \cup {<<"fresh", identityMatrix>>}}

NextShared ==
  \/ \E n \in Nodes, p \in SharedPartials(State) : UpdateAttrs(n, p)
  \/ \E n \in Nodes : GetBbox(n)
  \/ \E g \in {<<1>>, <<2>>, <<1, 2>>}, dx \in Deltas, dy \in Deltas : DMove(g, dx, dy)

SpecShared == InitShared /\ [][NextShared]_vars

\* ------------------------------------------------- bbox of any transform
\* the entries a, b, c, d of the transforms a node is constructed with:
\* identity, quarter turns, mirrors, non-uniform scales, skews and products
Linear == {-1, 0, 1, 2}
BboxTransforms ==
  {<<a, b, c, d, tx, ty>> :
     a \in Linear, b \in Linear, c \in Linear, d \in Linear,
     tx \in (0 - MaxCoord)..MaxCoord, ty \in (0 - MaxCoord)..MaxCoord}

InitBbox ==
  \E w \in Widths, h \in Heights, t \in BboxTransforms :
    LET s1 == Graph(NoState, 1, [width |-> w, height |-> h, transform |-> <<"fresh", t>>],
                    Empty)
        s2 == Collect(Graph(s1, 2, [width |-> 2, height |-> 2], Empty))
    IN nodes = s2.nodes /\ heap = s2.heap /\ draw = NoDrawing

BboxPartials ==
  {[x |-> c] : c \in Coords} \cup {[y |-> c] : c \in Coords}
  \cup {[width |-> w] : w \in Widths} \cup {[height |-> h] : h \in Heights}

NextBbox ==
  \/ \E p \in BboxPartials : UpdateAttrs(1, p)
  \/ GetBbox(1)

SpecBbox == InitBbox /\ [][NextBbox]_vars

\* ------------------------------------------------ rotation by quarter turns
RotWidths == {2, 4, 100}
RotHeights == {2, 4, 50}
RotCoords == {0 - MaxCoord, 0, 10}

\* node 2 is constructed as node 1 is and is never turned
InitRot ==
  \E w \in RotWidths, h \in RotHeights, x \in RotCoords, y \in RotCoords :
    LET s1 == Graph(NoState, 1, [width |-> w, height |-> h], [x |-> x, y |-> y])
        s2 == Collect(Graph(s1, 2, [width |-> w, height |-> h], [x |-> x, y |-> y]))
    IN nodes = s2.nodes /\ heap = s2.heap /\ draw = NoDrawing

\* setRotate(newRotate) with the center left out
SetRotateOwnCenter(n, newRotate) ==
  LET s == setRotate(State, n, newRotate, getCenter(State, n))
  IN /\ HasQuarterAngle(TransformOf(State, n))
     /\ Becomes(s)

\* updateAttrs({rotate})
UpdateRotate(n, newRotate) ==
  LET s == updateAttrs(State, n, [rotate |-> newRotate])
  IN /\ HasQuarterAngle(TransformOf(State, n))
     /\ Becomes(s)

GetBboxUncapped(n) ==
  LET s == getBbox(State, n)
  IN /\ s # State
     /\ Becomes(s)

NextRot ==
  \/ \E k \in 0..3 : SetRotateOwnCenter(1, k * HALF_PI)
  \/ \E k \in 0..3 : UpdateRotate(1, k * HALF_PI)
  \/ \E n \in Nodes : GetBboxUncapped(n)

SpecRot == InitRot /\ [][NextRot]_vars

\* ------------------------------------------------ setRotate then getRotate
\* the starting transforms: any a, b, and c, d with the up vector mapped onto
\* an axis (scaled, mirrored and skewed transforms among them)
TurnTransforms == {t \in BboxTransforms : HasQuarterAngle(t)}
\* newRotate, in quarter turns: negative and beyond a full turn included
TurnAngles == -1..4
TurnCenters == {[x |-> 0, y |-> 0], [x |-> 1, y |-> 2]}

InitTurn ==
  \E w \in Widths, t \in TurnTransforms :
    LET s1 == Graph(NoState, 1, [width |-> w, height |-> 4, transform |-> <<"fresh", t>>],
                    Empty)
        s2 == Collect(Graph(s1, 2, [width |-> 2, height |-> 2], Empty))
    IN nodes = s2.nodes /\ heap = s2.heap /\ draw = NoDrawing

NextTurn ==
  \/ \E k \in TurnAngles : SetRotateOwnCenter(1, k * HALF_PI)
  \/ \E k \in TurnAngles, c \in TurnCenters : SetRotateAbout(1, k * HALF_PI, c)

SpecTurn == InitTurn /\ [][NextTurn]_vars

\* ----------------------------------------------------- intersectWithBox
\* the transforms of the intersected node: every invertible a, b, c, d
BoxTransforms ==
  {t \in BboxTransforms : t[1] * t[4] - t[2] * t[3] # 0 /\ t[5] >= 0 /\ t[6] >= 0}
BoxCoords == -1..3
Boxes ==
  {b \in [minX : BoxCoords, minY : BoxCoords, maxX : BoxCoords, maxY : BoxCoords] :
     b.minX <= b.maxX /\ b.minY <= b.maxY}

InitBox ==
  \E h \in Heights, t \in BoxTransforms :
    LET s1 == Graph(NoState, 1, [width |-> 2, height |-> h, transform |-> <<"fresh", t>>],
                    Empty)
        s2 == Collect(Graph(s1, 2, [width |-> 2, height |-> 2], Empty))
    IN nodes = s2.nodes /\ heap = s2.heap /\ draw = NoDrawing

IntersectWithBox(n, box) ==
  LET s == intersectWithBox(State, n, box).state
  IN /\ InRange(Collect(s))
     /\ Becomes(s)

\* the boxes the calls of the behaviours pass: the state after the call does
\* not depend on the box
UnitBoxes == {b \in Boxes : b.maxX = b.minX + 1 /\ b.maxY = b.minY + 1 /\ b.minY = 0}

NextBox ==
  \/ \E box \in UnitBoxes : IntersectWithBox(1, box)
  \/ \E p \in {[height |-> h] : h \in Heights} : UpdateAttrs(1, p)

SpecBox == InitBox /\ [][NextBox]_vars

\* ------------------------------------------------------ drag to rotate
\* the transform at the start of the drag
DragTransforms ==
  {t \in BboxTransforms :
     /\ t[1] \in {0, 1, 2} /\ t[2] \in {0, 1} /\ t[3] \in {0, -1} /\ t[4] \in {0, 1}
     /\ t[1] * t[4] - t[2] * t[3] # 0
     /\ t[5] \in {0, MaxCoord} /\ t[6] \in {0, MaxCoord}}

\* node 2 holds the array of the drag's initAttrs; node 1 starts with an
\* array of its own of the same value
InitDrag ==
  \E t \in DragTransforms :
    LET s1 == Graph(NoState, 1, [width |-> 2, height |-> 4, transform |-> <<"fresh", t>>],
                    Empty)
        s2 == Collect(Graph(s1, 2, [width |-> 2, height |-> 4, transform |-> <<"fresh", t>>],
                            Empty))
    IN nodes = s2.nodes /\ heap = s2.heap /\ draw = NoDrawing

\* dRotate(d, {transform: the array node m holds}, center) on node n
DRotateFrom(n, d, m, center) ==
  LET s == dRotate(State, n, d, TransformOf(State, m), center)
  IN /\ InRange(Collect(s))
     /\ Becomes(s)

NextDrag ==
  \/ \E d \in 0..3, m \in Nodes, c \in TurnCenters : DRotateFrom(1, d * HALF_PI, m, c)
  \/ \E p \in {[x |-> c] : c \in Coords} : UpdateAttrs(1, p)

SpecDrag == InitDrag /\ [][NextDrag]_vars

\* ------------------------------------------------------------ reference
\* the corners of the local rect [0, 0, width, height], inflated by pad on
\* every side, in scene space
Corners(attrs, tf, pad) ==
  {[x |-> tf[1] * cx + tf[3] * cy + tf[5], y |-> tf[2] * cx + tf[4] * cy + tf[6]] :
     cx \in {0 - pad, attrs.width + pad}, cy \in {0 - pad, attrs.height + pad}}

\* box is the axis-aligned bounding box of the points C
IsAabbOf(box, C) ==
  /\ \A c \in C : /\ box.minX <= c.x /\ c.x <= box.maxX
                  /\ box.minY <= c.y /\ c.y <= box.maxY
  /\ \E c \in C : c.x = box.minX
  /\ \E c \in C : c.x = box.maxX
  /\ \E c \in C : c.y = box.minY
  /\ \E c \in C : c.y = box.maxY

GeometryKeys == {"x", "y", "width", "height", "transform", "rotate"}

Cache(s, n) == <<s.nodes[n]._cacheBbox, s.nodes[n]._cacheBboxWithStroke>>

\* updateAttrs(p) can be called on node n in the state s
CanUpdate(s, n, p) == "rotate" \in DOMAIN p => HasQuarterAngle(TransformOf(s, n))

\* ----------------------------------------------------------------- C1
\* C1: in every reachable state the geometry bbox cache of every node is
\* empty or is the bounding box of the node's current width, height and
\* transform.
C1_BboxCacheFresh ==
  \A n \in Nodes :
    \/ nodes[n]._cacheBbox = <<>>
    \/ IsAabbOf(nodes[n]._cacheBbox[1], Corners(nodes[n].attrs, TransformOf(State, n), 0))

\* ----------------------------------------------------------------- C2
\* C2: what getBboxWithStroke() returns, i.e. the stroke cache when it is
\* filled, is the bounding box of the local rect inflated by half the
\* node's current stroke width under the current transform.
C2_StrokeBboxCurrent ==
  \A n \in Nodes :
    \/ nodes[n]._cacheBboxWithStroke = <<>>
    \/ IsAabbOf(nodes[n]._cacheBboxWithStroke[1],
                Corners(nodes[n].attrs, TransformOf(State, n),
                        Half(getStrokeWidth(nodes[n].attrs))))

\* ----------------------------------------------------------------- C3
\* C3 as stated: in every reachable state the two caches of a node are both
\* filled or both empty.
C3_BothOrNeither ==
  \A n \in Nodes :
    (nodes[n]._cacheBbox = <<>>) <=> (nodes[n]._cacheBboxWithStroke = <<>>)

\* C3 as amended: the caches are emptied together.  A step that empties a
\* filled cache of a node leaves both caches of that node empty.
C3_ClearedTogether ==
  [][\A n \in Nodes :
       (\/ nodes[n]._cacheBbox # <<>> /\ nodes'[n]._cacheBbox = <<>>
        \/ nodes[n]._cacheBboxWithStroke # <<>> /\ nodes'[n]._cacheBboxWithStroke = <<>>)
       => (nodes'[n]._cacheBbox = <<>> /\ nodes'[n]._cacheBboxWithStroke = <<>>)]_vars

\* both caches are empty on a node that has been turned and resized
C3_Witness ==
  /\ Cache(State, 1) = <<<<>>, <<>>>>
  /\ getRotate(State, 1) = 1
  /\ nodes[1].attrs.width = 4
  /\ "strokeWidth" \in DOMAIN nodes[1].attrs

\* ----------------------------------------------------------------- C4
\* C4: in every reachable state, updateAttrs with a partial set that has
\* none of x, y, width, height, transform, rotate leaves both bbox caches of
\* the node exactly as they are.
C4_OtherKeysKeepCaches ==
  \A n \in Targets : \A p \in PartialAttrs(State, n) :
    DOMAIN p \cap GeometryKeys = {}
      => Cache(updateAttrs(State, n, p), n) = Cache(State, n)

\* visible has been set on a node whose two caches are filled
C4_Witness ==
  /\ "visible" \in DOMAIN nodes[1].attrs
  /\ nodes[1]._cacheBbox # <<>>
  /\ nodes[1]._cacheBboxWithStroke # <<>>

\* ----------------------------------------------------------------- C5
\* what C5 says of a call updateAttrs(p) that takes the transform old to new
C5_Post(s, p, old, new, withRotate) ==
  IF "transform" \in DOMAIN p
  THEN new = ValueOfTransformArg(s, p.transform)
  ELSE ("rotate" \in DOMAIN p => withRotate)
         => /\ "x" \in DOMAIN p => new[5] = p.x
            /\ "y" \in DOMAIN p => new[6] = p.y
            /\ <<new[1], new[2], new[3], new[4]>> = <<old[1], old[2], old[3], old[4]>>

\* C5 as stated: every updateAttrs(p) step leaves the transform equal to
\* p.transform when it is supplied, and otherwise sets tx, ty to p.x, p.y and
\* keeps a, b, c, d.
C5_AnyPartial ==
  [][\A n \in Targets : \A p \in PartialAttrs(State, n) :
       UpdateAttrs(n, p)
         => C5_Post(State, p, TransformOf(State, n), TransformOf(State, n)', TRUE)]_vars

\* C5 as amended: the same, the second half only for a p without rotate.
C5_WithoutRotate ==
  \A n \in Targets : \A p \in PartialAttrs(State, n) :
    CanUpdate(State, n, p)
      => C5_Post(State, p, TransformOf(State, n),
                 TransformOf(updateAttrs(State, n, p), n), FALSE)

\* the skew supplied as a transform, then moved by x and y
C5_Witness == TransformOf(State, 1) = <<1, 1, 0, 1, 0, 1>>

\* ----------------------------------------------------------------- C6
\* C6: the attribute record of a node never has a key x, y or rotate.
C6_NoPositionKeys ==
  \A n \in Nodes : DOMAIN nodes[n].attrs \cap {"x", "y", "rotate"} = {}

\* a node that has been updated, turned and placed
C6_Witness ==
  /\ "visible" \in DOMAIN nodes[1].attrs
  /\ getRotate(State, 1) = 1
  /\ TransformOf(State, 1)[5] = 1
  /\ TransformOf(State, 1)[6] = 1

\* ----------------------------------------------------------------- C7
\* C7: no step changes the id of a node.
C7_IdFixed ==
  [][\A n \in Nodes : nodes'[n].attrs.id = nodes[n].attrs.id]_vars

\* ----------------------------------------------------------------- C8
\* C8: updateAttrs({x, y}) or dMove on one node never changes the transform
\* or the bbox cache of the other node.
C8_OtherNodeUntouched ==
  [][\A a \in Nodes : \A b \in Nodes \ {a} :
       (\/ \E p \in {[x |-> 1], [y |-> 1], [x |-> 0, y |-> 0]} : UpdateAttrs(a, p)
        \/ \E dx \in Deltas, dy \in Deltas : DMove(<<a>>, dx, dy))
       => /\ TransformOf(State, b)' = TransformOf(State, b)
          /\ _calcBbox(nodes[b].attrs, TransformOf(State, b), 0)'
               = _calcBbox(nodes[b].attrs, TransformOf(State, b), 0)]_vars

\* ----------------------------------------------------------------- C9
\* C9: for every width, height and transform, what getBbox() returns is the
\* coordinate-wise min/max of the four corners of the local rect mapped
\* through the transform: every corner is inside the box and each of the
\* four bounds is attained by a corner.
C9_BboxIsCornerHull ==
  LET s == getBbox(State, 1)
  IN IsAabbOf(s.nodes[1]._cacheBbox[1], Corners(nodes[1].attrs, TransformOf(State, 1), 0))

\* the bbox of a 4 x 2 node under a product of scale, skew, turn and
\* translation has been computed
C9_Witness ==
  /\ nodes[1].attrs.width = 4
  /\ nodes[1].attrs.height = 2
  /\ TransformOf(State, 1) = <<2, 1, -1, 1, 1, -1>>
  /\ nodes[1]._cacheBbox = <<[minX |-> -1, minY |-> -1, maxX |-> 9, maxY |-> 5]>>

\* ---------------------------------------------------------------- C10
\* C10: a node of local size w x h turned about its own center to 0 or 2
\* quarter turns has a bbox of width w and height h, to 1 or 3 quarter turns
\* of width h and height w; the center of the bbox is the center of the node
\* in all four cases.  A 100 x 50 node at (10, 10) has the bbox
\* {10, 10, 110, 60}, and {35, -15, 85, 85} after setRotate of a quarter turn.
C10_QuarterTurnBbox ==
  \A k \in 0..3 :
    LET s == getBbox(setRotate(State, 1, k * HALF_PI, getCenter(State, 1)), 1)
        b == s.nodes[1]._cacheBbox[1]
        w == nodes[1].attrs.width
        h == nodes[1].attrs.height
        c == getCenter(State, 2)
    IN /\ k \in {0, 2} => b.maxX - b.minX = w /\ b.maxY - b.minY = h
       /\ k \in {1, 3} => b.maxX - b.minX = h /\ b.maxY - b.minY = w
       /\ b.minX + b.maxX = 2 * c.x
       /\ b.minY + b.maxY = 2 * c.y
       /\ getCenter(s, 1) = c
       /\ (w = 100 /\ h = 50 /\ TransformOf(State, 2) = <<1, 0, 0, 1, 10, 10>>)
            => /\ k = 0 => b = [minX |-> 10, minY |-> 10, maxX |-> 110, maxY |-> 60]
               /\ k = 1 => b = [minX |-> 35, minY |-> -15, maxX |-> 85, maxY |-> 85]

\* the 100 x 50 node at (10, 10) after a quarter turn, its bbox computed
C10_Witness ==
  /\ nodes[1].attrs.width = 100
  /\ nodes[1].attrs.height = 50
  /\ TransformOf(State, 2) = <<1, 0, 0, 1, 10, 10>>
  /\ getRotate(State, 1) = 1
  /\ nodes[1]._cacheBbox = <<[minX |-> 35, minY |-> -15, maxX |-> 85, maxY |-> 85]>>

\* ---------------------------------------------------------------- C11
\* C11: from every reachable transform and for every pivot, explicit or the
\* node's own center, getRotate() after setRotate(angle, center) is angle
\* modulo a full turn, and a second setRotate with the same angle leaves the
\* transform as the first one made it.
C11_SetThenGetRotate ==
  \A k \in TurnAngles :
    /\ \A c \in TurnCenters :
         LET s == setRotate(State, 1, k * HALF_PI, c)
         IN /\ getRotate(s, 1) = (k * HALF_PI) % 4
            /\ TransformOf(setRotate(s, 1, k * HALF_PI, c), 1) = TransformOf(s, 1)
    /\ LET s == setRotate(State, 1, k * HALF_PI, getCenter(State, 1))
       IN /\ getRotate(s, 1) = (k * HALF_PI) % 4
          /\ TransformOf(setRotate(s, 1, k * HALF_PI, getCenter(s, 1)), 1) = TransformOf(s, 1)

\* a scaled and skewed node turned to a quarter turn: the entry -2 is in no
\* starting transform
C11_Witness ==
  /\ getRotate(State, 1) = 1
  /\ TransformOf(State, 1)[1] = -2
  /\ TransformOf(State, 1)[2] = 2

\* ------------------------------------------- reference intersection test
\* the corners of the node's shape in scene space, in order around it
ShapeCorners(attrs, tf) ==
  <<[x |-> tf[5], y |-> tf[6]],
    [x |-> tf[1] * attrs.width + tf[5], y |-> tf[2] * attrs.width + tf[6]],
    [x |-> tf[1] * attrs.width + tf[3] * attrs.height + tf[5],
     y |-> tf[2] * attrs.width + tf[4] * attrs.height + tf[6]],
    [x |-> tf[3] * attrs.height + tf[5], y |-> tf[4] * attrs.height + tf[6]]>>

BoxCorners(box) ==
  <<[x |-> box.minX, y |-> box.minY], [x |-> box.maxX, y |-> box.minY],
    [x |-> box.maxX, y |-> box.maxY], [x |-> box.minX, y |-> box.maxY]>>

PointInBox(q, box) ==
  /\ box.minX <= q.x /\ q.x <= box.maxX
  /\ box.minY <= q.y /\ q.y <= box.maxY

\* v lies between 0 and limit, whatever the sign of limit
Between(v, limit) == IF limit >= 0 THEN 0 <= v /\ v <= limit ELSE limit <= v /\ v <= 0

\* q = tf (u, v) with 0 <= u <= width and 0 <= v <= height, by Cramer's rule
PointInShape(q, attrs, tf) ==
  LET n == tf[1] * tf[4] - tf[2] * tf[3]
      un == tf[4] * (q.x - tf[5]) - tf[3] * (q.y - tf[6])
      vn == tf[1] * (q.y - tf[6]) - tf[2] * (q.x - tf[5])
  IN Between(un, attrs.width * n) /\ Between(vn, attrs.height * n)

Orient(p, q, r) == Sign((q.x - p.x) * (r.y - p.y) - (q.y - p.y) * (r.x - p.x))

\* the segments p1 p2 and p3 p4 cross at a point inside both
Cross(p1, p2, p3, p4) ==
  /\ Orient(p1, p2, p3) * Orient(p1, p2, p4) < 0
  /\ Orient(p3, p4, p1) * Orient(p3, p4, p2) < 0

Succ4(i) == (i % 4) + 1

\* the shape of the node and the box, both closed, have a point in common:
\* a corner of one lies in the other or two of their edges cross
SharePoint(attrs, tf, box) ==
  LET P == ShapeCorners(attrs, tf)
      B == BoxCorners(box)
  IN \/ \E i \in 1..4 : PointInBox(P[i], box)
     \/ \E i \in 1..4 : PointInShape(B[i], attrs, tf)
     \/ \E i \in 1..4, j \in 1..4 : Cross(P[i], P[Succ4(i)], B[j], B[Succ4(j)])

\* the box misses the bounding box of the shape
MissesAabb(attrs, tf, box) ==
  LET P == ShapeCorners(attrs, tf)
  IN \/ \A i \in 1..4 : P[i].x > box.maxX
     \/ \A i \in 1..4 : P[i].x < box.minX
     \/ \A i \in 1..4 : P[i].y > box.maxY
     \/ \A i \in 1..4 : P[i].y < box.minY

\* one of the two lies wholly in the other
FullyOverlap(attrs, tf, box) ==
  \/ \A i \in 1..4 : PointInBox(ShapeCorners(attrs, tf)[i], box)
  \/ \A i \in 1..4 : PointInShape(BoxCorners(box)[i], attrs, tf)

\* a turn by an odd multiple of 45 degrees with a uniform scale
Rotated45(tf) ==
  /\ tf[1] = tf[4] /\ tf[2] = 0 - tf[3]
  /\ Abs(tf[1]) = Abs(tf[2]) /\ tf[1] # 0

\* ---------------------------------------------------------------- C12
\* C12: intersectWithBox(box) returns false when the box misses the node's
\* AABB, true when one of box and node lies wholly in the other, and for a
\* node turned by 45 degrees it returns whether shape and box share a point:
\* false where only the AABB overlaps the box.
C12_IntersectCases ==
  \A box \in Boxes :
    LET r == intersectWithBox(State, 1, box).isIntersected
        attrs == nodes[1].attrs
        tf == TransformOf(State, 1)
    IN /\ MissesAabb(attrs, tf, box) => ~r
       /\ FullyOverlap(attrs, tf, box) => r
       /\ Rotated45(tf) => (r <=> SharePoint(attrs, tf, box))

\* the 2 x 2 node turned by 45 degrees has been tested: the box
\* {2, 0, 3, 1} overlaps its bbox {-2, 0, 2, 4}, and the answer is false
C12_Witness ==
  LET box == [minX |-> 2, minY |-> 0, maxX |-> 3, maxY |-> 1]
  IN /\ TransformOf(State, 1) = <<1, 1, -1, 1, 0, 0>>
     /\ nodes[1].attrs.height = 2
     /\ nodes[1]._cacheBbox = <<[minX |-> -2, minY |-> 0, maxX |-> 2, maxY |-> 4]>>
     /\ isBoxIntersect(box, nodes[1]._cacheBbox[1])
     /\ ~intersectWithBox(State, 1, box).isIntersected

\* ---------------------------------------------------------------- C13
\* C13: whenever getRotate() is zero or a multiple of a quarter turn,
\* intersectWithBox(box) returns exactly whether the node's shape and the
\* box share a point, for every such transform and every box.
C13_QuarterTurnExact ==
  \A box \in Boxes :
    IsQuarterTurn(TransformOf(State, 1))
      => (intersectWithBox(State, 1, box).isIntersected
            <=> SharePoint(nodes[1].attrs, TransformOf(State, 1), box))

\* ---------------------------------------------------------------- C14
\* the point q turned by d quarter turns about c
TurnedAbout(d, c, q) ==
  [x |-> c.x + Cos(d) * (q.x - c.x) - Sin(d) * (q.y - c.y),
   y |-> c.y + Sin(d) * (q.x - c.x) + Cos(d) * (q.y - c.y)]

\* the image of q under the transform t
ImageOf(t, q) == [x |-> t[1] * q.x + t[3] * q.y + t[5], y |-> t[2] * q.x + t[4] * q.y + t[6]]

\* t is init followed by the turn by d about c
IsTurnOf(t, d, c, init) ==
  \A q \in {[x |-> 0, y |-> 0], [x |-> 1, y |-> 0], [x |-> 0, y |-> 1]} :
    ImageOf(t, q) = TurnedAbout(d, c, ImageOf(init, q))

\* C14: dRotate(d, init, center) makes the node's transform the turn by d
\* about center applied after init.transform, whatever the node's live
\* transform is: a repeated call, or the call after another dRotate with the
\* same init, gives the same transform, and the array of init is not
\* written.
C14_DRotateFromInit ==
  \A d \in 0..3, m \in Nodes, c \in TurnCenters :
    LET r == nodes[m].attrs.transform
        init == heap[r]
        s == dRotate(State, 1, d * HALF_PI, init, c)
    IN /\ IsTurnOf(TransformOf(s, 1), d * HALF_PI, c, init)
       /\ s.heap[r] = init
       /\ TransformOf(dRotate(s, 1, d * HALF_PI, s.heap[r], c), 1) = TransformOf(s, 1)
       /\ \A e \in {1, 2} :
            LET s1 == dRotate(State, 1, e * HALF_PI, init, c)
            IN TransformOf(dRotate(s1, 1, d * HALF_PI, s1.heap[r], c), 1) = TransformOf(s, 1)

\* node 1 has been turned by a quarter turn about the origin from the
\* skewed start that node 2 still holds
C14_Witness ==
  /\ TransformOf(State, 2) = <<2, 1, 0, 1, 1, 0>>
  /\ TransformOf(State, 1) = <<-1, 2, -1, 0, 0, 1>>

\* ---------------------------------------------------------------- C15
\* the attributes of a node other than its transform
OtherAttrs(s, n) == [k \in DOMAIN s.nodes[n].attrs \ {"transform"} |-> s.nodes[n].attrs[k]]

Listed(graphs) == {graphs[i] : i \in DOMAIN graphs}

\* C15: every step dMove(graphs, dx, dy) adds dx to tx and dy to ty of each
\* listed node once, keeps a, b, c, d and the other attributes of the listed
\* nodes, empties both their caches, and changes no attribute of a node that
\* is not listed.
C15_DMoveFrame ==
  [][\A g \in {<<1>>, <<2>>, <<1, 2>>}, dx \in Deltas, dy \in Deltas :
       DMove(g, dx, dy)
         => \A n \in Nodes :
              LET old == TransformOf(State, n)
              IN /\ OtherAttrs(State, n)' = OtherAttrs(State, n)
                 /\ IF n \in Listed(g)
                    THEN /\ TransformOf(State, n)'
                              = <<old[1], old[2], old[3], old[4], old[5] + dx, old[6] + dy>>
                         /\ Cache(State, n)' = <<<<>>, <<>>>>
                    ELSE TransformOf(State, n)' = old]_vars

\* ====================================================== path drawing tool
\* packages/core/src/tools/tool_draw_path.ts.  The variable draw holds the
\* DrawPathTool and what it works on: the path editor, the command manager,
\* the scene and the pathData arrays.  The path is a Graph node of the
\* variable nodes.  pathData is a JavaScript array, i.e. a reference: the
\* sequence draw.pd maps a reference to the sub-paths of the array, and
\* attrs.pathData and the snapshots of the commands hold references.
\*
\* The world w is the record of the three variables, threaded through the
\* operators below as the state s is through those of Graph.

\* ---------------------------------------------------------------- bounds
\* largest number of gestures (onStart calls) of a behaviour
MaxGestures == 4
\* largest number of onDrag calls of a behaviour
MaxDrags == 1

\* ------------------------------------------------------------- constants
anchorSize == 5

World == [nodes |-> nodes, heap |-> heap, draw |-> draw]

Pt(x, y) == [x |-> x, y |-> y]
ZeroPt == Pt(0, 0)

\* the node a new Path is constructed in
PathId == 1

\* ----------------------------------------------------------------- Path
\* this.attrs.pathData
PathData(w, n) == w.draw.pd[w.nodes[n].attrs.pathData]

\* a write into the array attrs.pathData refers to
SetPathData(w, n, v) == [w EXCEPT !.draw.pd[w.nodes[n].attrs.pathData] = v]

getPathItemCount(w, n) == Len(PathData(w, n))

hasPath(w, n, pathIdx) == pathIdx >= 0 /\ pathIdx < getPathItemCount(w, n)

\* a sub-path that does not exist has no segments
getSegCount(w, n, pathIdx) ==
  IF hasPath(w, n, pathIdx) THEN Len(PathData(w, n)[pathIdx + 1].segs) ELSE 0

checkPathItemClosed(w, n, pathIdx) ==
  IF hasPath(w, n, pathIdx) THEN PathData(w, n)[pathIdx + 1].closed ELSE FALSE

hasSeg(w, n, pathIdx, segIdx) == segIdx >= 0 /\ segIdx < getSegCount(w, n, pathIdx)

\* getSeg(pathIdx, segIdx, {applyTransform}): <<seg>>, or <<>> when absent.
\* The handles are offsets from the anchor.
getSeg(w, n, pathIdx, segIdx, applyTransform) ==
  IF ~hasSeg(w, n, pathIdx, segIdx) THEN <<>>
  ELSE LET seg == PathData(w, n)[pathIdx + 1].segs[segIdx + 1]
       IN IF applyTransform
          THEN <<[seg EXCEPT !.point = apply(TransformOf(w, n), seg.point)]>>
          ELSE <<seg>>

addEmptyPath(w, n) ==
  SetPathData(w, n, Append(PathData(w, n), [segs |-> <<>>, closed |-> FALSE]))

\* addSeg(pathIdx, seg): the anchor is given in scene space and kept in the
\* space of the path, whose transform is a translation
addSeg(w, n, pathIdx, seg) ==
  LET tf == TransformOf(w, n)
      local == [seg EXCEPT !.point = Pt(seg.point.x - tf[5], seg.point.y - tf[6])]
      w1 == IF pathIdx = getPathItemCount(w, n) THEN addEmptyPath(w, n) ELSE w
  IN IF ~hasPath(w1, n, pathIdx) THEN w
     ELSE SetPathData(w1, n, [PathData(w1, n) EXCEPT ![pathIdx + 1].segs = Append(@, local)])

\* setSeg(pathIdx, segIdx, partial): merged into the segment, if there is one
setSeg(w, n, pathIdx, segIdx, partial) ==
  IF ~hasSeg(w, n, pathIdx, segIdx) THEN w
  ELSE LET old == PathData(w, n)[pathIdx + 1].segs[segIdx + 1]
           new == [k \in DOMAIN old |-> IF k \in DOMAIN partial THEN partial[k] ELSE old[k]]
       IN SetPathData(w, n, [PathData(w, n) EXCEPT ![pathIdx + 1].segs[segIdx + 1] = new])

setPathItemClosed(w, n, pathIdx, closed) ==
  IF ~hasPath(w, n, pathIdx) THEN w
  ELSE SetPathData(w, n, [PathData(w, n) EXCEPT ![pathIdx + 1].closed = closed])

\* --------------------------------------------------------------- editor
\* cloneDeep({transform: path.attrs.transform, pathData: path.attrs.pathData}):
\* a new pathData array and the six numbers of the transform
cloneDeep(w, n) ==
  [world |-> [w EXCEPT !.draw.pd = Append(@, PathData(w, n))],
   value |-> [transform |-> TransformOf(w, n), pathData |-> Len(w.draw.pd) + 1]]

\* the partial attribute set a command hands to updateAttrs
AttrsOf(snapshot) ==
  [transform |-> <<"fresh", snapshot.transform>>, pathData |-> snapshot.pathData]

\* at zoom 1
viewportSizeToScene(size) == size

\* distance(p, q) <= r, for r >= 0
WithinDistance(p, q, r) ==
  (p.x - q.x) * (p.x - q.x) + (p.y - q.y) * (p.y - q.y) <= r * r

pathEditor_active(w, n) ==
  [w EXCEPT !.draw.pathEditor.active = TRUE, !.draw.pathEditor.path = n]

pathEditor_inactive(w) ==
  [w EXCEPT !.draw.pathEditor.active = FALSE, !.draw.pathEditor.path = 0]

\* ------------------------------------------------------ command manager
AddGraphCmd(desc, elements) ==
  [type |-> "AddGraphCmd", desc |-> desc, elements |-> elements,
   attrs |-> <<>>, prevAttrs |-> <<>>]

SetGraphsAttrsCmd(desc, elements, attrs, prevAttrs) ==
  [type |-> "SetGraphsAttrsCmd", desc |-> desc, elements |-> elements,
   attrs |-> attrs, prevAttrs |-> prevAttrs]

\* the hooks of DrawPathTool.onStart, or none
NoHooks == <<>>
PathHooks == <<"pathEditor">>

batchCommandStart(w) == [w EXCEPT !.draw.commandManager.isBatching = TRUE]

\* pushCommand(command, hooks): into the open batch, or onto the undo stack
pushCommand(w, command, hooks) ==
  LET item == [command |-> command, hooks |-> hooks]
  IN IF w.draw.commandManager.isBatching
     THEN [w EXCEPT !.draw.commandManager.batchCommands = Append(@, item)]
     ELSE [w EXCEPT !.draw.commandManager.undoStack = Append(@, <<item>>),
                    !.draw.commandManager.redoStack = <<>>]

\* batchCommandEnd(): the commands pushed since batchCommandStart become one
\* entry of the undo stack
batchCommandEnd(w) ==
  LET cm == w.draw.commandManager
  IN IF cm.isBatching /\ cm.batchCommands # <<>>
     THEN [w EXCEPT !.draw.commandManager =
             [isBatching |-> FALSE, batchCommands |-> <<>>,
              undoStack |-> Append(cm.undoStack, cm.batchCommands),
              redoStack |-> <<>>]]
     ELSE [w EXCEPT !.draw.commandManager.isBatching = FALSE]

\* one line of the log of the last undo or redo: the operation, and the path
\* being edited (0 for none) and the scene when it starts
Logged(w, op, desc) ==
  [w EXCEPT !.draw.log = Append(@, [op |-> op, desc |-> desc,
                                    editing |-> w.draw.pathEditor.path,
                                    inScene |-> w.draw.sceneGraph])]

\* command.redo()
cmdRedo(w, command) ==
  LET w1 == Logged(w, "redo", command.desc)
      n == command.elements[1]
  IN IF command.type = "AddGraphCmd"
     THEN [w1 EXCEPT !.draw.sceneGraph = @ \cup {n}]
     ELSE updateAttrs(w1, n, AttrsOf(command.attrs[1]))

\* command.undo()
cmdUndo(w, command) ==
  LET w1 == Logged(w, "undo", command.desc)
      n == command.elements[1]
  IN IF command.type = "AddGraphCmd"
     THEN [w1 EXCEPT !.draw.sceneGraph = @ \ {n}]
     ELSE updateAttrs(w1, n, AttrsOf(command.prevAttrs[1]))

\* toolManager.setActiveTool(type): the tool that is left is told
setActiveTool(w, type) ==
  LET w1 == IF w.draw.activeTool = "drawPath" /\ type # "drawPath"
            THEN batchCommandEnd(w)
            ELSE w
  IN [w1 EXCEPT !.draw.activeTool = type]

\* beforeRedo: pathEditor.active(path); setActiveTool(PathSelectTool.type)
beforeRedo(w, item) ==
  IF item.hooks = NoHooks THEN w
  ELSE LET w1 == setActiveTool(pathEditor_active(w, item.command.elements[1]), "pathSelect")
       IN Logged(w1, "beforeRedo", item.command.desc)

\* beforeUndo: pathEditor.inactive('undo')
beforeUndo(w, item) ==
  IF item.hooks = NoHooks THEN w
  ELSE Logged(pathEditor_inactive(w), "beforeUndo", item.command.desc)

RECURSIVE RunHooks(_, _, _, _)
\* the hooks of the entry, in push order, before any of its commands
RunHooks(w, entry, i, isRedo) ==
  IF i > Len(entry) THEN w
  ELSE RunHooks(IF isRedo THEN beforeRedo(w, entry[i]) ELSE beforeUndo(w, entry[i]),
                entry, i + 1, isRedo)

RECURSIVE RedoFrom(_, _, _)
\* the commands of the entry from the i-th on, in push order
RedoFrom(w, entry, i) ==
  IF i > Len(entry) THEN w
  ELSE RedoFrom(cmdRedo(w, entry[i].command), entry, i + 1)

RECURSIVE UndoFrom(_, _, _)
\* the commands of the entry from the i-th down, in reverse order
UndoFrom(w, entry, i) ==
  IF i < 1 THEN w
  ELSE UndoFrom(cmdUndo(w, entry[i].command), entry, i - 1)

\* commandManager.undo()
undo(w) ==
  LET cm == w.draw.commandManager
      entry == cm.undoStack[Len(cm.undoStack)]
      w0 == [w EXCEPT !.draw.log = <<>>,
                      !.draw.commandManager.undoStack = SubSeq(@, 1, Len(@) - 1),
                      !.draw.commandManager.redoStack = Append(@, entry)]
  IN IF cm.undoStack = <<>> THEN w
     ELSE UndoFrom(RunHooks(w0, entry, 1, FALSE), entry, Len(entry))

\* commandManager.redo()
redo(w) ==
  LET cm == w.draw.commandManager
      entry == cm.redoStack[Len(cm.redoStack)]
      w0 == [w EXCEPT !.draw.log = <<>>,
                      !.draw.commandManager.redoStack = SubSeq(@, 1, Len(@) - 1),
                      !.draw.commandManager.undoStack = Append(@, entry)]
  IN IF cm.redoStack = <<>> THEN w
     ELSE RedoFrom(RunHooks(w0, entry, 1, TRUE), entry, 1)

\* --------------------------------------------------------- DrawPathTool
\* getCorrectedPoint(): the cursor is on the pixel grid already
getCorrectedPoint(point) == point

toolCheckPathItemClosed(w) ==
  IF w.draw.tool.path = 0 THEN FALSE
  ELSE checkPathItemClosed(w, w.draw.tool.path, w.draw.tool.pathIdx)

\* <<start anchor>> when the cursor is on the start anchor of the sub-path
\* being drawn, <<>> (null) otherwise
checkCursorPtInStartAnchor(w, point) ==
  LET path == w.draw.tool.path
      pathIdx == w.draw.tool.pathIdx
  IN IF path = 0 THEN <<>>
     ELSE IF getPathItemCount(w, path) <= pathIdx THEN <<>>
     ELSE IF getSegCount(w, path, pathIdx) > 1
          THEN LET startAnchorPoint == getSeg(w, path, pathIdx, 0, TRUE)[1].point
               IN IF WithinDistance(startAnchorPoint, point, viewportSizeToScene(anchorSize))
                  THEN <<startAnchorPoint>>
                  ELSE <<>>
          ELSE <<>>

onActive(w) ==
  IF w.draw.pathEditor.active
  THEN [w EXCEPT !.draw.tool.path = w.draw.pathEditor.path,
                 !.draw.tool.pathIdx = getPathItemCount(w, w.draw.pathEditor.path)]
  ELSE w

onInactive(w) == batchCommandEnd(w)

onMoveExcludeDrag(w, point) ==
  LET snapPoint == checkCursorPtInStartAnchor(w, point)
  IN [w EXCEPT !.draw.cursor = IF snapPoint # <<>> THEN "pen-close" ELSE "pen"]

\* faulty variant (C16): prevAttrs refers to the arrays of the path itself
CreatePath_PrevAttrsNotCloned(w, startPoint) ==
  LET pathData == <<[segs |-> <<[point |-> ZeroPt, in |-> ZeroPt, out |-> ZeroPt]>>,
                    closed |-> FALSE]>>
      ref == Len(w.draw.pd) + 1
      w1 == [w EXCEPT !.draw.pd = Append(@, pathData)]
      w2 == Graph(w1, PathId,
                  [objectName |-> "", width |-> 100, height |-> 100, strokeWidth |-> 1,
                   pathData |-> ref],
                  startPoint)
      w3 == [w2 EXCEPT !.draw.tool.path = PathId,
                       !.draw.sceneGraph = @ \cup {PathId}]
      w4 == batchCommandStart(w3)
      w5 == pushCommand(w4, AddGraphCmd("Add Path", <<PathId>>), PathHooks)
      w6 == [w5 EXCEPT !.draw.selectedElements = <<PathId>>]
      w7 == [w6 EXCEPT !.draw.tool.prevAttrs =
               <<[transform |-> TransformOf(w6, PathId), pathData |-> ref]>>]
  IN pathEditor_active(w7, PathId)

\* faulty variant (C17): the command is pushed without its hooks
CreatePath_NoHooks(w, startPoint) ==
  LET pathData == <<[segs |-> <<[point |-> ZeroPt, in |-> ZeroPt, out |-> ZeroPt]>>,
                    closed |-> FALSE]>>
      ref == Len(w.draw.pd) + 1
      w1 == [w EXCEPT !.draw.pd = Append(@, pathData)]
      w2 == Graph(w1, PathId,
                  [objectName |-> "", width |-> 100, height |-> 100, strokeWidth |-> 1,
                   pathData |-> ref],
                  startPoint)
      w3 == [w2 EXCEPT !.draw.tool.path = PathId,
                       !.draw.sceneGraph = @ \cup {PathId}]
      w4 == batchCommandStart(w3)
      w5 == pushCommand(w4, AddGraphCmd("Add Path", <<PathId>>), NoHooks)
      w6 == [w5 EXCEPT !.draw.selectedElements = <<PathId>>]
      c == cloneDeep(w6, PathId)
      w7 == [c.world EXCEPT !.draw.tool.prevAttrs = <<c.value>>]
  IN pathEditor_active(w7, PathId)

\* onStart, the branch that creates a new path
CreatePath(w, startPoint) ==
  LET pathData == <<[segs |-> <<[point |-> ZeroPt, in |-> ZeroPt, out |-> ZeroPt]>>,
                    closed |-> FALSE]>>
      ref == Len(w.draw.pd) + 1
      w1 == [w EXCEPT !.draw.pd = Append(@, pathData)]
      w2 == Graph(w1, PathId,
                  [objectName |-> "", width |-> 100, height |-> 100, strokeWidth |-> 1,
                   pathData |-> ref],
                  startPoint)
      w3 == [w2 EXCEPT !.draw.tool.path = PathId,
                       !.draw.sceneGraph = @ \cup {PathId}]
      w4 == batchCommandStart(w3)
      w5 == pushCommand(w4, AddGraphCmd("Add Path", <<PathId>>), PathHooks)
      w6 == [w5 EXCEPT !.draw.selectedElements = <<PathId>>]
      c == cloneDeep(w6, PathId)
      w7 == [c.world EXCEPT !.draw.tool.prevAttrs = <<c.value>>]
  IN pathEditor_active(w7, PathId)

\* onStart, the branch that adds an anchor to the path being edited
AddAnchor(w, snapPoint, startPoint) ==
  LET path == w.draw.tool.path
      c == cloneDeep(w, path)
      w1 == [c.world EXCEPT !.draw.tool.prevAttrs = <<c.value>>]
      w2 == IF Len(w1.draw.pathEditor.selectedControl) = 0
            THEN [w1 EXCEPT !.draw.tool.pathIdx = getPathItemCount(w1, path)]
            ELSE w1
      pathIdx == w2.draw.tool.pathIdx
      w3 == IF ~hasPath(w2, path, pathIdx) THEN addEmptyPath(w2, path) ELSE w2
  IN IF snapPoint # <<>>
     THEN setSeg(setPathItemClosed(w3, path, pathIdx, TRUE), path, pathIdx, 0,
                 [in |-> ZeroPt])
     ELSE addSeg(w3, path, pathIdx,
                 [point |-> startPoint, in |-> ZeroPt, out |-> ZeroPt])

onStart(w, point) ==
  LET snapPoint == checkCursorPtInStartAnchor(w, point)
      startPoint == IF snapPoint # <<>> THEN snapPoint[1] ELSE getCorrectedPoint(point)
      w0 == [w EXCEPT !.draw.tool.startPoint = <<startPoint>>]
      w1 == IF ~w0.draw.pathEditor.active
            THEN CreatePath(w0, startPoint)
            ELSE AddAnchor(w0, snapPoint, startPoint)
      lastSegIdx == getSegCount(w1, w1.draw.tool.path, w1.draw.tool.pathIdx) - 1
      selectSegIdx == IF toolCheckPathItemClosed(w1) THEN 0 ELSE lastSegIdx
  IN [w1 EXCEPT !.draw.pathEditor.selectedControl =
        <<[type |-> "anchor", pathIdx |-> w1.draw.tool.pathIdx, segIdx |-> selectSegIdx]>>]

\* faulty variant (C19): the in handle is mirrored for a lone segment too
onDrag_MirrorsLoneSegment(w, point) ==
  IF w.draw.tool.startPoint = <<>> THEN w
  ELSE LET startPoint == w.draw.tool.startPoint[1]
           dx == getCorrectedPoint(point).x - startPoint.x
           dy == getCorrectedPoint(point).y - startPoint.y
           path == w.draw.tool.path
           pathIdx == w.draw.tool.pathIdx
           lastSegIdx == getSegCount(w, path, pathIdx) - 1
           out == [out |-> Pt(dx, dy)]
           inAndOut == IF ~w.draw.isAltPressing
                       THEN [in |-> Pt(0 - dx, 0 - dy), out |-> Pt(dx, dy)]
                       ELSE out
       IN setSeg(w, path, pathIdx,
                 IF checkPathItemClosed(w, path, pathIdx) THEN 0 ELSE lastSegIdx,
                 inAndOut)

onDrag(w, point) ==
  IF w.draw.tool.startPoint = <<>> THEN w
  ELSE LET startPoint == w.draw.tool.startPoint[1]
           dx == getCorrectedPoint(point).x - startPoint.x
           dy == getCorrectedPoint(point).y - startPoint.y
           path == w.draw.tool.path
           pathIdx == w.draw.tool.pathIdx
           lastSegIdx == getSegCount(w, path, pathIdx) - 1
           out == [out |-> Pt(dx, dy)]
           inAndOut == IF ~w.draw.isAltPressing /\ lastSegIdx # 0
                       THEN [in |-> Pt(0 - dx, 0 - dy), out |-> Pt(dx, dy)]
                       ELSE out
       IN setSeg(w, path, pathIdx,
                 IF checkPathItemClosed(w, path, pathIdx) THEN 0 ELSE lastSegIdx,
                 inAndOut)

onEnd(w) ==
  LET w1 == IF toolCheckPathItemClosed(w)
            THEN [w EXCEPT !.draw.pathEditor.selectedControl = <<>>]
            ELSE w
      path == w1.draw.tool.path
      w2 == updateAttrs(w1, path, [pathData |-> w1.nodes[path].attrs.pathData])
      c == cloneDeep(w2, path)
      w3 == pushCommand(c.world,
                        SetGraphsAttrsCmd("Update Path Data", <<path>>, <<c.value>>,
                                          w2.draw.tool.prevAttrs),
                        NoHooks)
  IN batchCommandEnd(w3)

afterEnd(w) == [w EXCEPT !.draw.tool.startPoint = <<>>]

\* hostEventManager flips isAltPressing before it tells the tool
onAltToggle(w, point) ==
  LET w1 == [w EXCEPT !.draw.isAltPressing = ~@]
  IN IF w1.draw.tool.startPoint = <<>> THEN w1 ELSE onDrag(w1, point)

\* ------------------------------------------------------------- inputs
\* the cursor positions: on an anchor, within anchorSize of it, elsewhere
CursorPoints == {Pt(0, 0), Pt(3, 4), Pt(12, 0)}

\* the next state is the world w, its transform arrays renumbered
Draws(w) ==
  LET c == Collect(w)
  IN nodes' = c.nodes /\ heap' = c.heap /\ draw' = w.draw

InitPath == nodes = NoState.nodes /\ heap = NoState.heap /\ draw = NoDrawing

\* -------------------------------------------------------------- actions
\* Every action is one handler of the tool or one call of the command
\* manager.  The tool manager calls onStart, onDrag*, onEnd, afterEnd in this
\* order, and the other handlers between gestures.
Active == draw.activeTool = "drawPath"

OnActive ==
  /\ draw.activeTool # "drawPath" /\ draw.phase = "idle"
  /\ Draws(onActive([World EXCEPT !.draw.activeTool = "drawPath"]))

OnInactive ==
  /\ Active /\ draw.phase = "idle"
  /\ Draws(setActiveTool(World, "pathSelect"))

OnMoveExcludeDrag(point) ==
  /\ Active /\ draw.phase = "idle"
  /\ Draws(onMoveExcludeDrag(World, point))

OnStart(point) ==
  /\ Active /\ draw.phase = "idle"
  /\ draw.gestures < MaxGestures
  /\ Draws([onStart(World, point) EXCEPT !.draw.phase = "started",
                                         !.draw.gestures = @ + 1,
                                         !.draw.log = <<>>])

OnDrag(point) ==
  /\ Active /\ draw.phase = "started"
  /\ draw.drags < MaxDrags
  /\ Draws([onDrag(World, point) EXCEPT !.draw.drags = @ + 1])

OnAltToggle(point) ==
  /\ Active /\ draw.phase \in {"idle", "started"}
  /\ draw.phase = "started" => draw.drags < MaxDrags
  /\ Draws([onAltToggle(World, point) EXCEPT
              !.draw.drags = IF draw.phase = "started" THEN @ + 1 ELSE @])

OnEnd ==
  /\ Active /\ draw.phase = "started"
  /\ Draws([onEnd(World) EXCEPT !.draw.phase = "ended"])

AfterEnd ==
  /\ Active /\ draw.phase = "ended"
  /\ Draws([afterEnd(World) EXCEPT !.draw.phase = "idle"])

Undo ==
  /\ draw.phase = "idle"
  /\ draw.commandManager.undoStack # <<>>
  /\ Draws(undo(World))

Redo ==
  /\ draw.phase = "idle"
  /\ draw.commandManager.redoStack # <<>>
  /\ Draws(redo(World))

\* the events of the tool while it stays the active tool
NextPath ==
  \/ \E point \in CursorPoints : OnMoveExcludeDrag(point)
  \/ \E point \in CursorPoints : OnStart(point)
  \/ \E point \in CursorPoints : OnDrag(point)
  \/ \E point \in CursorPoints : OnAltToggle(point)
  \/ OnEnd
  \/ AfterEnd

SpecPath == InitPath /\ [][NextPath]_vars

\* the events of the tool, the switch to another tool and back, and the
\* undo and redo of the command manager
\* with undo and redo between them, fewer gestures and cursor positions
UndoGestures == MaxGestures - 2
UndoPoints == {Pt(0, 0), Pt(12, 0)}

OnStartUndo(point) == draw.gestures < UndoGestures /\ OnStart(point)

NextUndo ==
  \/ \E point \in UndoPoints : OnStartUndo(point)
  \/ \E point \in UndoPoints : OnDrag(point)
  \/ OnEnd
  \/ AfterEnd
  \/ OnActive
  \/ OnInactive
  \/ Undo
  \/ Redo

SpecUndo == InitPath /\ [][NextUndo]_vars

\* ------------------------------------------------- claims on the commands
\* the attributes of node n, every array replaced by what it holds
AttrValues(w, n) ==
  LET a == w.nodes[n].attrs
  IN [k \in DOMAIN a |-> CASE k = "transform" -> TransformOf(w, n)
                            [] k = "pathData" -> PathData(w, n)
                            [] OTHER -> a[k]]

\* the pathData a path is constructed with
OneAnchor ==
  <<[segs |-> <<[point |-> ZeroPt, in |-> ZeroPt, out |-> ZeroPt]>>, closed |-> FALSE]>>

Descs(entry) == [i \in 1..Len(entry) |-> entry[i].command.desc]
Reverse(seq) == [i \in 1..Len(seq) |-> seq[Len(seq) + 1 - i]]

\* the descriptions of the commands the log shows to be applied (op "redo")
\* or reverted (op "undo"), in the order of the log
LoggedDescs(log, op) ==
  LET sel == SelectSeq(log, LAMBDA l : l.op = op)
  IN [i \in 1..Len(sel) |-> sel[i].desc]

Top(stack) == stack[Len(stack)]

\* an entry of several commands was opened by batchCommandStart
IsBatch(entry) == Len(entry) > 1

\* C16: a batch is applied in push order and reverted in the reverse order,
\* and once applied and reverted it leaves every attribute of the node,
\* transform and path data included, as it was before: a redo followed by an
\* undo changes nothing, and the undo of the batch of a gesture gives back the
\* path as it was constructed.
C16_BatchOrderAndRestore ==
  LET cm == draw.commandManager
  IN draw.phase = "idle" =>
       /\ cm.redoStack # <<>> =>
            LET entry == Top(cm.redoStack)
                w1 == redo(World)
                w2 == undo(w1)
            IN /\ LoggedDescs(w1.draw.log, "redo") = Descs(entry)
               /\ LoggedDescs(w2.draw.log, "undo") = Reverse(Descs(entry))
               /\ IsBatch(entry) =>
                    /\ AttrValues(w2, PathId) = AttrValues(World, PathId)
                    /\ w2.draw.sceneGraph = draw.sceneGraph
       /\ cm.undoStack # <<>> =>
            LET entry == Top(cm.undoStack)
                w1 == undo(World)
            IN /\ LoggedDescs(w1.draw.log, "undo") = Reverse(Descs(entry))
               /\ IsBatch(entry) =>
                    /\ AttrValues(w1, PathId) =
                         [AttrValues(World, PathId) EXCEPT !.pathData = OneAnchor]
                    /\ PathId \notin w1.draw.sceneGraph

\* the batch of a gesture with a drag has been undone: the path is as it
\* was constructed although the gesture gave its anchor a handle
C16_Witness ==
  /\ draw.phase = "idle"
  /\ [i \in 1..Len(draw.log) |-> draw.log[i].op] = <<"beforeUndo", "undo", "undo">>
  /\ draw.commandManager.redoStack # <<>>
  /\ IsBatch(Top(draw.commandManager.redoStack))
  /\ draw.pd[Top(draw.commandManager.redoStack)[2].command.attrs[1].pathData] # OneAnchor
  /\ PathData(World, PathId) = OneAnchor
  /\ PathId \notin draw.sceneGraph

\* C17: in the undo of a batch with hooks beforeUndo runs before any command
\* is reverted, in its redo beforeRedo runs before any command is applied;
\* for the batch that creates a path, no path is being edited when the path is
\* removed, and the path is being edited again when its path data is
\* re-applied.
C17_HooksFirst ==
  LET log == draw.log
  IN \A i \in 1..Len(log) :
       /\ log[i].op = "undo" /\ log[i].desc = "Add Path" =>
            log[1].op = "beforeUndo" /\ log[i].editing = 0
       /\ log[i].op = "redo" /\ log[i].desc = "Add Path" => log[1].op = "beforeRedo"
       /\ log[i].op \in {"beforeUndo", "beforeRedo"} =>
            \A j \in 1..(i - 1) : log[j].op \notin {"undo", "redo"}
       /\ log[i].op = "redo" /\ log[i].desc = "Update Path Data" /\ Len(log) > 1 =>
            log[i].editing = PathId

\* the batch that creates a path has been undone and redone
C17_Witness ==
  /\ [i \in 1..Len(draw.log) |-> draw.log[i].op] = <<"beforeRedo", "redo", "redo">>
  /\ draw.log[3].desc = "Update Path Data"
  /\ draw.pathEditor.active
  /\ PathId \in draw.sceneGraph

\* ------------------------------------------------- claims on the gestures
\* C18: every sub-path of the path that is marked closed has at least two
\* segments.
C18_ClosedHasTwoSegments ==
  draw.tool.path # 0 =>
    LET pathData == PathData(World, draw.tool.path)
    IN \A i \in 1..Len(pathData) : pathData[i].closed => Len(pathData[i].segs) >= 2

\* the segment onDrag writes: the first one of a closed sub-path, the last
\* one of an open sub-path
DraggedSegIdx(w) ==
  IF toolCheckPathItemClosed(w) THEN 0
  ELSE getSegCount(w, w.draw.tool.path, w.draw.tool.pathIdx) - 1

\* onDrag at the cursor position point, from the world w of a gesture: the
\* dragged segment, if there is one, gets out = cursor - start, and its in
\* handle is kept if Alt is pressed or if keeps(w), and is -out otherwise
DragPost(w, point, keeps(_)) ==
  LET path == w.draw.tool.path
      pathIdx == w.draw.tool.pathIdx
      i == DraggedSegIdx(w)
      start == w.draw.tool.startPoint[1]
      w1 == onDrag(w, point)
  IN hasSeg(w, path, pathIdx, i) =>
       LET old == getSeg(w, path, pathIdx, i, FALSE)[1]
           new == getSeg(w1, path, pathIdx, i, FALSE)[1]
       IN /\ new.out = Pt(point.x - start.x, point.y - start.y)
          /\ new.point = old.point
          /\ IF w.draw.isAltPressing \/ keeps(w)
             THEN new.in = old.in
             ELSE new.in = Pt(0 - new.out.x, 0 - new.out.y)

\* the dragged segment is the first one of its sub-path, and its in handle
\* is zero
DragsFirstSeg(w) ==
  /\ DraggedSegIdx(w) = 0
  /\ getSeg(w, w.draw.tool.path, w.draw.tool.pathIdx, 0, FALSE)[1].in = ZeroPt

\* the sub-path being drawn has one segment, and its in handle is zero
DragsLoneSeg(w) ==
  /\ getSegCount(w, w.draw.tool.path, w.draw.tool.pathIdx) = 1
  /\ getSeg(w, w.draw.tool.path, w.draw.tool.pathIdx, 0, FALSE)[1].in = ZeroPt

\* C19: after each onDrag of a gesture the dragged segment's out handle is
\* cursor - start point and its in handle is the negation of out, unless Alt
\* is pressed (in is left unchanged) or the dragged segment is the first one
\* of its sub-path, whose in handle stays zero, also on the gesture that
\* closes the sub-path.
C19_FirstSegKeepsZero ==
  draw.phase = "started" =>
    \A point \in CursorPoints : DragPost(World, point, DragsFirstSeg)

\* C19, as the code has it: the in handle stays zero when the sub-path has
\* one segment only; on the gesture that closes a sub-path the first
\* segment is dragged and its in handle is mirrored like any other.
C19_LoneSegKeepsZero ==
  draw.phase = "started" =>
    \A point \in CursorPoints : DragPost(World, point, DragsLoneSeg)

\* a drag on the gesture that closed sub-path 0: the first segment has a
\* non-zero out handle and the mirrored in handle
C19_Witness ==
  /\ draw.phase = "started" /\ draw.drags > 0 /\ ~draw.isAltPressing
  /\ toolCheckPathItemClosed(World)
  /\ LET seg == getSeg(World, draw.tool.path, draw.tool.pathIdx, 0, FALSE)
     IN /\ seg # <<>>
        /\ seg[1].out # ZeroPt
        /\ seg[1].in = Pt(0 - seg[1].out.x, 0 - seg[1].out.y)

\* what a snapshot v holds, and what the path of the tool holds
SnapshotValue(d, v) == [transform |-> v.transform, pathData |-> d.pd[v.pathData]]
PathValue(w) ==
  [transform |-> TransformOf(w, w.draw.tool.path),
   pathData |-> PathData(w, w.draw.tool.path)]

\* the two snapshots of every command of an entry
EntryValues(d, entry) ==
  [i \in 1..Len(entry) |->
     IF entry[i].command.type = "SetGraphsAttrsCmd"
     THEN <<SnapshotValue(d, entry[i].command.prevAttrs[1]),
            SnapshotValue(d, entry[i].command.attrs[1])>>
     ELSE <<>>]

\* the entries of the command manager in the order they were pushed
Timeline(d) == d.commandManager.undoStack \o Reverse(d.commandManager.redoStack)

\* onStart: prevAttrs is the path before the gesture touched it
BeforeTaken ==
  (draw.phase = "idle" /\ draw'.phase = "started") =>
    SnapshotValue(draw', draw'.tool.prevAttrs[1]) =
      IF draw.pathEditor.active
      THEN PathValue(World)
      ELSE [transform |-> <<1, 0, 0, 1, draw'.tool.startPoint[1].x,
                            draw'.tool.startPoint[1].y>>,
            pathData |-> OneAnchor]

\* onDrag, onAltToggle: prevAttrs is kept during the gesture
BeforeKept ==
  (draw.phase = "started" /\ draw'.phase = "started") =>
    SnapshotValue(draw', draw'.tool.prevAttrs[1]) =
      SnapshotValue(draw, draw.tool.prevAttrs[1])

\* onEnd: the command pushed holds prevAttrs and the path as it is now
AfterTaken ==
  (draw.phase = "started" /\ draw'.phase = "ended") =>
    LET entry == Top(draw'.commandManager.undoStack)
    IN EntryValues(draw', entry)[Len(entry)] =
         <<SnapshotValue(draw, draw.tool.prevAttrs[1]),
           PathValue([nodes |-> nodes', heap |-> heap', draw |-> draw'])>>

\* no step alters a snapshot of a command that stays in the command manager
SnapshotsKept ==
  \A i \in 1..Len(draw.commandManager.undoStack) :
    i <= Len(Timeline(draw')) =>
      EntryValues(draw', Timeline(draw')[i]) = EntryValues(draw, Timeline(draw)[i])

\* undo: the path is what the 'before' snapshot of the command holds
UndoRestores ==
  (/\ draw.phase = "idle" /\ draw'.phase = "idle"
   /\ Len(draw'.commandManager.undoStack) < Len(draw.commandManager.undoStack)) =>
    LET entry == Top(draw.commandManager.undoStack)
    IN PathValue([nodes |-> nodes', heap |-> heap', draw |-> draw']) =
         EntryValues(draw, entry)[Len(entry)][1]

\* C20: for every gesture the 'before' snapshot of its 'Update Path Data'
\* command is the path's transform and pathData as onStart found them, the
\* 'after' snapshot is their values at onEnd, no later step alters either
\* snapshot, and the undo of the command gives back the path of the 'before'
\* snapshot.
C20_SnapshotsExact ==
  [][BeforeTaken /\ BeforeKept /\ AfterTaken /\ SnapshotsKept /\ UndoRestores]_vars

\* ------------------------------------------------- claims on the batches
\* the steps of the tool: a gesture starts (onStart), goes on (onDrag), ends
\* (onEnd); the tool is left for another one (onInactive)
StartsGesture == draw.phase = "idle" /\ draw'.phase = "started"
InGesture == draw.phase = "started" /\ draw'.phase = "started"
EndsGesture == draw.phase = "started" /\ draw'.phase = "ended"
LeavesTool == draw.activeTool = "drawPath" /\ draw'.activeTool # "drawPath"

\* the gesture that creates a path opens a batch and pushes 'Add Path' into
\* it, nothing is pushed during the gesture, and onEnd pushes 'Update Path
\* Data' and closes the batch: the two commands are one entry of the undo
\* stack
OneUndoUnit ==
  LET cm == draw.commandManager
      cm1 == draw'.commandManager
  IN /\ (StartsGesture /\ ~draw.pathEditor.active) =>
          /\ cm1.isBatching
          /\ Descs(cm1.batchCommands) = <<"Add Path">>
          /\ cm1.undoStack = cm.undoStack
     /\ InGesture => cm1 = cm
     /\ (EndsGesture /\ cm.isBatching) =>
          /\ ~cm1.isBatching /\ cm1.batchCommands = <<>>
          /\ Len(cm1.undoStack) = Len(cm.undoStack) + 1
          /\ SubSeq(cm1.undoStack, 1, Len(cm.undoStack)) = cm.undoStack
          /\ Descs(Top(cm1.undoStack)) = <<"Add Path", "Update Path Data">>

\* C21: batchCommandEnd is called (by onEnd, and by onInactive when the tool
\* is left) only while a batch opened by batchCommandStart is open, and the
\* 'Add Path' and 'Update Path Data' commands of the gesture that creates a
\* path are pushed between one batchCommandStart and its batchCommandEnd and
\* are one undo unit.
C21_EndOnlyWhileOpen ==
  [][/\ (EndsGesture \/ LeavesTool) => draw.commandManager.isBatching
     /\ OneUndoUnit]_vars

\* a batch is open during the gesture that creates a path and at no other
\* time; the batchCommandEnd of any other onEnd and of every onInactive
\* finds no batch open and changes nothing: the 'Update Path Data' of a
\* gesture that adds an anchor is an undo unit of its own
UnpairedEnds ==
  LET cm == draw.commandManager
      cm1 == draw'.commandManager
  IN /\ cm1.isBatching => draw'.phase = "started"
     /\ (StartsGesture /\ draw.pathEditor.active) => cm1 = cm
     /\ (EndsGesture /\ ~cm.isBatching) =>
          /\ ~cm1.isBatching /\ cm1.batchCommands = <<>>
          /\ Len(cm1.undoStack) = Len(cm.undoStack) + 1
          /\ SubSeq(cm1.undoStack, 1, Len(cm.undoStack)) = cm.undoStack
          /\ Descs(Top(cm1.undoStack)) = <<"Update Path Data">>
     /\ LeavesTool =>
          /\ ~cm.isBatching
          /\ batchCommandEnd(World).draw.commandManager = cm

\* what does hold of the batches: the two commands of the gesture that
\* creates a path are one undo unit, and every other call of batchCommandEnd
\* finds no batch open and, with this command manager, changes nothing
OneUnitPerCreation == [][OneUndoUnit /\ UnpairedEnds]_vars

\* two gestures have ended: the undo stack holds the batch of the first and
\* the single command of the second
TwoGesturesEnded ==
  /\ draw.phase = "ended"
  /\ ~draw.commandManager.isBatching
  /\ Len(draw.commandManager.undoStack) = 2
  /\ Descs(draw.commandManager.undoStack[1]) = <<"Add Path", "Update Path Data">>
  /\ Descs(draw.commandManager.undoStack[2]) = <<"Update Path Data">>

\* C22: when onStart has completed, pathIdx is the index of a sub-path of
\* the tool's path and the anchor selected refers to a segment that exists.
C22_SelectedAnchorExists ==
  draw.phase = "started" =>
    LET path == draw.tool.path
        sel == draw.pathEditor.selectedControl
    IN /\ draw.tool.pathIdx < getPathItemCount(World, path)
       /\ \A i \in 1..Len(sel) : hasSeg(World, path, sel[i].pathIdx, sel[i].segIdx)

\* ========================================================= DrawGraphTool
\* packages/core/src/tools/tool_draw_graph.ts.  In the behaviours of this
\* tool the variable draw holds the fields of the tool, the modifier keys of
\* the host event manager, the viewport, the scene graph and the command
\* manager; the graphs drawn are nodes.  Cursor positions are on the pixel
\* grid and the zoom is 1.

\* largest number of times Space is pressed: every press during a drag can
\* move the start point further
MaxSpaces == 1

\* setting drawGraphDefaultWidth / drawGraphDefaultHeight
drawGraphDefaultWidth == 100
drawGraphDefaultHeight == 100

commandDesc == "Add Graph"

\* the tool after construction, in an editor where nothing is drawn;
\* lastDragPoint, lastDragPointInViewport and lastMousePoint are declared
\* without a value (<<>>)
NoGraphDrawing ==
  [tool |-> [drawingGraph |-> 0,
             startPoint |-> Pt(-1, -1),
             lastDragPoint |-> <<>>,
             lastDragPointInViewport |-> <<>>,
             lastMousePoint |-> <<>>,
             startPointWhenSpaceDown |-> <<>>,
             lastDragPointWhenSpaceDown |-> <<>>,
             isDragging |-> FALSE],
   hostEventManager |-> [isShiftPressing |-> FALSE,
                         isAltPressing |-> FALSE,
                         isSpacePressing |-> FALSE,
                         isDraggingCanvasBySpace |-> FALSE],
   viewport |-> ZeroPt,
   keepToolSelectedAfterUse |-> FALSE,
   commandManager |-> [isBatching |-> FALSE, batchCommands |-> <<>>,
                       undoStack |-> <<>>, redoStack |-> <<>>],
   sceneGraph |-> <<>>,
   selectedElements |-> <<>>,
   activeTool |-> "drawGraph",
   rect |-> <<>>,
   phase |-> "idle",
   toolManagerIsDragging |-> FALSE,
   atStart |-> [sceneGraph |-> 0, undoStack |-> 0],
   spaces |-> 0]

\* ------------------------------------------------------------- the editor
\* editor.getCursorXY(e): the position of the pointer event in the viewport
getCursorXY(e) == e

\* editor.viewportCoordsToScene(x, y, round)
viewportCoordsToScene(w, x, y) == Pt(x + w.draw.viewport.x, y + w.draw.viewport.y)

\* editor.getSceneCursorXY(e, round)
getSceneCursorXY(w, e) == viewportCoordsToScene(w, getCursorXY(e).x, getCursorXY(e).y)

\* @suika/geo normalizeRect: width and height made positive
normalizeRect(rect) ==
  [x |-> MathMin(rect.x, rect.x + rect.width),
   y |-> MathMin(rect.y, rect.y + rect.height),
   width |-> Abs(rect.width),
   height |-> Abs(rect.height)]

\* the graph a createGraph of this world returns: the next node
NewGraph(w) == Len(w.draw.sceneGraph) + 1

\* createGraph(rect, noMove) of a subclass: a graph over the normalized rect
createGraph(w, rect) ==
  LET r == normalizeRect(rect)
  IN Graph(w, NewGraph(w), [width |-> r.width, height |-> r.height],
           [x |-> r.x, y |-> r.y])

\* sceneGraph.addItems([element])
addItems(w, element) == [w EXCEPT !.draw.sceneGraph = Append(@, element)]

\* Math.sign(v) || 1
SignOr1(v) == IF Sign(v) # 0 THEN Sign(v) ELSE 1

\* ---------------------------------------------------------- DrawGraphTool
adjustSizeWhenShiftPressing(rect) ==
  LET size == MathMax(Abs(rect.width), Abs(rect.height))
  IN [rect EXCEPT !.height = SignOr1(rect.height) * size,
                  !.width = SignOr1(rect.width) * size]

updateGraph(w, rect) ==
  LET r == normalizeRect(rect)
  IN updateAttrs(w, w.draw.tool.drawingGraph,
                 [x |-> r.x, y |-> r.y, width |-> r.width, height |-> r.height])

\* the start point of updateRect: moved with the cursor while Space is down
MovedStartPoint(w) ==
  LET t == w.draw.tool
  IN IF t.startPointWhenSpaceDown # <<>> /\ t.lastDragPointWhenSpaceDown # <<>>
     THEN Pt(t.startPointWhenSpaceDown[1].x
               + (t.lastDragPoint[1].x - t.lastDragPointWhenSpaceDown[1].x),
             t.startPointWhenSpaceDown[1].y
               + (t.lastDragPoint[1].y - t.lastDragPointWhenSpaceDown[1].y))
     ELSE t.startPoint

\* faulty variant (C24): a zero extent is not replaced
DraggedRect_KeepsZero(w, startPoint) ==
  LET t == w.draw.tool
      width == t.lastDragPoint[1].x - startPoint.x
      height == t.lastDragPoint[1].y - startPoint.y
  IN [x |-> startPoint.x, y |-> startPoint.y, width |-> width, height |-> height]

\* the rect of updateRect before Alt and Shift are looked at
DraggedRect(w, startPoint) ==
  LET t == w.draw.tool
      width == t.lastDragPoint[1].x - startPoint.x
      height == t.lastDragPoint[1].y - startPoint.y
  IN [x |-> startPoint.x,
      y |-> startPoint.y,
      width |-> IF width = 0
                THEN SignOr1(t.lastMousePoint[1].x - startPoint.x) * 1
                ELSE width,
      height |-> IF height = 0
                 THEN SignOr1(t.lastMousePoint[1].y - startPoint.y) * 1
                 ELSE height]

\* faulty variant (C25): the center is not restored after the square
AdjustedRect_CenterNotRestored(rect, isStartPtAsCenter, keepSquare) ==
  LET rect1 == IF isStartPtAsCenter
               THEN [x |-> rect.x - rect.width, y |-> rect.y - rect.height,
                     width |-> rect.width * 2, height |-> rect.height * 2]
               ELSE rect
  IN IF keepSquare THEN adjustSizeWhenShiftPressing(rect1) ELSE rect1

\* the rect of updateRect after Alt (start point as center) and Shift (square)
AdjustedRect(rect, isStartPtAsCenter, keepSquare) ==
  LET rect1 == IF isStartPtAsCenter
               THEN [x |-> rect.x - rect.width, y |-> rect.y - rect.height,
                     width |-> rect.width * 2, height |-> rect.height * 2]
               ELSE rect
      cx == IF isStartPtAsCenter THEN rect1.x + Half(rect1.width) ELSE 0
      cy == IF isStartPtAsCenter THEN rect1.y + Half(rect1.height) ELSE 0
      rect2 == IF keepSquare THEN adjustSizeWhenShiftPressing(rect1) ELSE rect1
  IN IF isStartPtAsCenter
     THEN [rect2 EXCEPT !.x = cx - Half(rect2.width), !.y = cy - Half(rect2.height)]
     ELSE rect2

\* updateRect(); draw.rect records the rect handed to createGraph or
\* updateGraph
updateRect(w) ==
  IF ~w.draw.tool.isDragging THEN w
  ELSE LET startPoint == MovedStartPoint(w)
           w1 == [w EXCEPT !.draw.tool.startPoint = startPoint]
           rect == AdjustedRect(DraggedRect(w1, startPoint),
                                w1.draw.hostEventManager.isAltPressing,
                                w1.draw.hostEventManager.isShiftPressing)
           w2 == IF w1.draw.tool.drawingGraph # 0
                 THEN [updateGraph(w1, rect) EXCEPT
                         !.draw.rect = <<[rect |-> rect, to |-> "updateGraph"]>>]
                 ELSE LET element == NewGraph(w1)
                      IN [addItems(createGraph(w1, rect), element) EXCEPT
                            !.draw.tool.drawingGraph = element,
                            !.draw.rect = <<[rect |-> rect, to |-> "createGraph"]>>]
       IN [w2 EXCEPT !.draw.selectedElements = <<w2.draw.tool.drawingGraph>>]

DrawGraphTool_onStart(w, e) ==
  [w EXCEPT !.draw.tool.startPoint = getSceneCursorXY(w, e),
            !.draw.tool.drawingGraph = 0,
            !.draw.tool.isDragging = FALSE,
            !.draw.tool.startPointWhenSpaceDown = <<>>,
            !.draw.tool.lastDragPointWhenSpaceDown = <<>>]

DrawGraphTool_onDrag(w, e) ==
  IF w.draw.hostEventManager.isDraggingCanvasBySpace THEN w
  ELSE updateRect([w EXCEPT !.draw.tool.isDragging = TRUE,
                            !.draw.tool.lastDragPointInViewport = <<getCursorXY(e)>>,
                            !.draw.tool.lastDragPoint = <<getSceneCursorXY(w, e)>>,
                            !.draw.tool.lastMousePoint = <<getSceneCursorXY(w, e)>>])

\* the shiftToggle and altToggle handler of onActive
onModifierToggle(w) == IF w.draw.tool.isDragging THEN updateRect(w) ELSE w

handleSpaceToggle(w, isDown) ==
  IF w.draw.tool.isDragging /\ isDown
  THEN updateRect([w EXCEPT
         !.draw.tool.startPointWhenSpaceDown = <<w.draw.tool.startPoint>>,
         !.draw.tool.lastDragPointWhenSpaceDown = w.draw.tool.lastMousePoint])
  ELSE [w EXCEPT !.draw.tool.startPointWhenSpaceDown = <<>>,
                 !.draw.tool.lastDragPointWhenSpaceDown = <<>>]

updateRectWhenViewportTranslate(w) ==
  IF w.draw.hostEventManager.isDraggingCanvasBySpace THEN w
  ELSE IF w.draw.tool.isDragging
       THEN updateRect([w EXCEPT !.draw.tool.lastDragPoint =
              <<viewportCoordsToScene(w, w.draw.tool.lastDragPointInViewport[1].x,
                                      w.draw.tool.lastDragPointInViewport[1].y)>>])
       ELSE w

\* faulty variant (C23): the command is pushed only for a graph made by onEnd
DrawGraphTool_onEnd_DragNotPushed(w, e, made) ==
  IF w.draw.hostEventManager.isDraggingCanvasBySpace THEN w
  ELSE LET endPoint == getSceneCursorXY(w, e)
           element == NewGraph(w)
       IN IF w.draw.tool.drawingGraph = 0 /\ made
          THEN pushCommand(
                 [addItems(createGraph(w, [x |-> endPoint.x - Half(drawGraphDefaultWidth),
                                           y |-> endPoint.y - Half(drawGraphDefaultHeight),
                                           width |-> drawGraphDefaultWidth,
                                           height |-> drawGraphDefaultHeight]),
                           element)
                  EXCEPT !.draw.tool.drawingGraph = element,
                         !.draw.selectedElements = <<element>>],
                 AddGraphCmd(commandDesc, <<element>>), NoHooks)
          ELSE w

\* onEnd(e); made: the createGraph of the subclass returns a graph, not null
DrawGraphTool_onEnd(w, e, made) ==
  IF w.draw.hostEventManager.isDraggingCanvasBySpace THEN w
  ELSE LET endPoint == getSceneCursorXY(w, e)
           element == NewGraph(w)
           w1 == IF w.draw.tool.drawingGraph = 0 /\ made
                 THEN [addItems(createGraph(w, [x |-> endPoint.x - Half(drawGraphDefaultWidth),
                                                y |-> endPoint.y - Half(drawGraphDefaultHeight),
                                                width |-> drawGraphDefaultWidth,
                                                height |-> drawGraphDefaultHeight]),
                                element)
                       EXCEPT !.draw.tool.drawingGraph = element,
                              !.draw.selectedElements = <<element>>]
                 ELSE w
       IN IF w1.draw.tool.drawingGraph # 0
          THEN pushCommand(w1, AddGraphCmd(commandDesc, <<w1.draw.tool.drawingGraph>>),
                           NoHooks)
          ELSE w1

DrawGraphTool_afterEnd(w) ==
  LET w1 == [w EXCEPT !.draw.tool.isDragging = FALSE]
      w2 == IF w1.draw.tool.drawingGraph # 0 /\ ~w1.draw.keepToolSelectedAfterUse
            THEN setActiveTool(w1, "select")
            ELSE w1
  IN [w2 EXCEPT !.draw.tool.startPointWhenSpaceDown = <<>>,
                !.draw.tool.lastDragPointWhenSpaceDown = <<>>]

\* ------------------------------------------------------------- inputs
\* the positions of the pointer in the viewport: with equal and with
\* different x and y, so that extents are positive, negative and zero
ViewPoints == {Pt(0, 0), Pt(2, 0), Pt(2, 1)}
\* the positions of the viewport
Viewports == {Pt(0, 0), Pt(1, 0)}

InitGraph ==
  /\ nodes = NoState.nodes /\ heap = NoState.heap
  /\ \E keep \in BOOLEAN :
       draw = [NoGraphDrawing EXCEPT !.keepToolSelectedAfterUse = keep]

\* -------------------------------------------------------------- actions
\* The tool manager calls onStart, onDrag*, onEnd, afterEnd in this order; the
\* host event manager and the viewport manager call the handlers that
\* onActive has bound, until onInactive unbinds them.
GraphActive == draw.activeTool = "drawGraph"

GraphOnActive ==
  /\ ~GraphActive /\ draw.phase = "idle"
  /\ Draws([World EXCEPT !.draw.activeTool = "drawGraph"])

GraphOnInactive ==
  /\ GraphActive /\ draw.phase = "idle"
  /\ Draws(setActiveTool(World, "select"))

\* a gesture starts if there is a node left for its graph
GraphOnStart(e) ==
  /\ GraphActive /\ draw.phase = "idle"
  /\ Len(draw.sceneGraph) < Cardinality(Nodes)
  /\ Draws([DrawGraphTool_onStart(World, e) EXCEPT
              !.draw.phase = "started",
              !.draw.rect = <<>>,
              !.draw.atStart = [sceneGraph |-> Len(draw.sceneGraph),
                                undoStack |-> Len(draw.commandManager.undoStack)]])

GraphOnDrag(e) ==
  /\ GraphActive /\ draw.phase = "started"
  /\ Draws(DrawGraphTool_onDrag([World EXCEPT !.draw.toolManagerIsDragging = TRUE], e))

ShiftToggle ==
  /\ GraphActive /\ draw.phase \in {"idle", "started"}
  /\ Draws(onModifierToggle([World EXCEPT !.draw.hostEventManager.isShiftPressing = ~@]))

AltToggle ==
  /\ GraphActive /\ draw.phase \in {"idle", "started"}
  /\ Draws(onModifierToggle([World EXCEPT !.draw.hostEventManager.isAltPressing = ~@]))

\* Space starts to drag the canvas unless the tool manager is in a drag
SpaceToggle ==
  /\ GraphActive /\ draw.phase \in {"idle", "started"}
  /\ ~draw.hostEventManager.isSpacePressing => draw.spaces < MaxSpaces
  /\ LET isDown == ~draw.hostEventManager.isSpacePressing
         w1 == [World EXCEPT
                  !.draw.spaces = IF isDown THEN @ + 1 ELSE @,
                  !.draw.hostEventManager.isSpacePressing = isDown,
                  !.draw.hostEventManager.isDraggingCanvasBySpace =
                    isDown /\ ~draw.toolManagerIsDragging]
     IN Draws(handleSpaceToggle(w1, isDown))

XOrYChange(viewport) ==
  /\ GraphActive /\ draw.phase \in {"idle", "started"}
  /\ viewport # draw.viewport
  /\ Draws(updateRectWhenViewportTranslate([World EXCEPT !.draw.viewport = viewport]))

GraphOnEnd(e, made) ==
  /\ GraphActive /\ draw.phase = "started"
  /\ Draws([DrawGraphTool_onEnd(World, e, made) EXCEPT !.draw.phase = "ended"])

GraphAfterEnd ==
  /\ GraphActive /\ draw.phase = "ended"
  /\ Draws([DrawGraphTool_afterEnd(World) EXCEPT !.draw.phase = "idle",
                                                !.draw.toolManagerIsDragging = FALSE])

\* a gesture in a scene that is still empty
FirstGraphOnStart(e) == draw.sceneGraph = <<>> /\ GraphOnStart(e)

\* the events of the tool until it has drawn a graph
NextGraph ==
  \/ GraphOnActive
  \/ GraphOnInactive
  \/ \E e \in ViewPoints : FirstGraphOnStart(e)
  \/ \E e \in ViewPoints : GraphOnDrag(e)
  \/ ShiftToggle
  \/ AltToggle
  \/ SpaceToggle
  \/ \E viewport \in Viewports : XOrYChange(viewport)
  \/ \E e \in ViewPoints, made \in BOOLEAN : GraphOnEnd(e, made)
  \/ GraphAfterEnd

SpecGraph == InitGraph /\ [][NextGraph]_vars

\* the events of the tool over several gestures, for fewer positions of the
\* pointer
StartPoints == {Pt(0, 0)}
DragPoints == {Pt(2, 1)}

NextGraphs ==
  \/ GraphOnActive
  \/ GraphOnInactive
  \/ \E e \in StartPoints : GraphOnStart(e)
  \/ \E e \in DragPoints : GraphOnDrag(e)
  \/ ShiftToggle
  \/ AltToggle
  \/ SpaceToggle
  \/ \E viewport \in Viewports : XOrYChange(viewport)
  \/ \E e \in DragPoints, made \in BOOLEAN : GraphOnEnd(e, made)
  \/ GraphAfterEnd

SpecGraphs == InitGraph /\ [][NextGraphs]_vars

Drawn == draw.tool.isDragging /\ draw.rect # <<>>
HandedRect(d) == d.rect[1].rect

\* C24: every rect handed to createGraph or updateGraph during a drag has a
\* width and a height that are not zero, whatever the start point, the
\* cursor and the Shift, Alt and Space keys, and so has the graph drawn.
C24_RectNeverFlat ==
  Drawn =>
    /\ HandedRect(draw).width # 0
    /\ HandedRect(draw).height # 0
    /\ nodes[draw.tool.drawingGraph].attrs.width # 0
    /\ nodes[draw.tool.drawingGraph].attrs.height # 0

\* the cursor is on the start point, with Shift and Alt pressed: both
\* extents are zero
C24_Witness ==
  /\ Drawn
  /\ draw.tool.lastDragPoint = <<draw.tool.startPoint>>
  /\ draw.hostEventManager.isShiftPressing
  /\ draw.hostEventManager.isAltPressing
  /\ HandedRect(draw).width = 2

\* the two dragged extents: cursor - start point, a zero extent drawn as 1
Extents(w) ==
  LET r == DraggedRect(w, w.draw.tool.startPoint)
  IN [width |-> Abs(r.width), height |-> Abs(r.height)]

LargerExtent(w) == MathMax(Extents(w).width, Extents(w).height)

\* with Alt the center of the rect is the start point
AltCenters ==
  draw.hostEventManager.isAltPressing =>
    /\ 2 * HandedRect(draw).x + HandedRect(draw).width = 2 * draw.tool.startPoint.x
    /\ 2 * HandedRect(draw).y + HandedRect(draw).height = 2 * draw.tool.startPoint.y

\* with Shift and without Alt the corner of the rect is the start point
ShiftKeepsCorner ==
  (draw.hostEventManager.isShiftPressing /\ ~draw.hostEventManager.isAltPressing) =>
    /\ HandedRect(draw).x = draw.tool.startPoint.x
    /\ HandedRect(draw).y = draw.tool.startPoint.y

\* C25: with Alt the center of the rect handed is the start point, with or
\* without Shift; with Shift |width| and |height| are the larger of the two
\* dragged extents; with Shift and without Alt the corner of the rect is the
\* start point.
C25_SquareOfLargerExtent ==
  Drawn =>
    /\ AltCenters
    /\ draw.hostEventManager.isShiftPressing =>
         /\ Abs(HandedRect(draw).width) = LargerExtent(World)
         /\ Abs(HandedRect(draw).height) = LargerExtent(World)
    /\ ShiftKeepsCorner

\* C25, as the code has it: with Shift and Alt the rect is doubled before it
\* is made square, so |width| and |height| are twice the larger extent.
C25_SquareDoubledWithAlt ==
  Drawn =>
    LET side == IF draw.hostEventManager.isAltPressing
                THEN 2 * LargerExtent(World)
                ELSE LargerExtent(World)
    IN /\ AltCenters
       /\ draw.hostEventManager.isShiftPressing =>
            /\ Abs(HandedRect(draw).width) = side
            /\ Abs(HandedRect(draw).height) = side
       /\ ShiftKeepsCorner

\* Shift and Alt with different extents: a square of twice the larger one
\* around the start point
C25_Witness ==
  /\ Drawn
  /\ draw.hostEventManager.isShiftPressing
  /\ draw.hostEventManager.isAltPressing
  /\ Extents(World) = [width |-> 2, height |-> 1]
  /\ Abs(HandedRect(draw).width) = 4
  /\ Abs(HandedRect(draw).height) = 4

\* Space is down since a moment of the drag
SpaceHeld(d) == d.tool.startPointWhenSpaceDown # <<>>
InDrag == draw.phase = "started" /\ draw'.phase = "started"
SameKeys ==
  /\ draw'.hostEventManager.isShiftPressing = draw.hostEventManager.isShiftPressing
  /\ draw'.hostEventManager.isAltPressing = draw.hostEventManager.isAltPressing
SameSize ==
  /\ HandedRect(draw').width = HandedRect(draw).width
  /\ HandedRect(draw').height = HandedRect(draw).height

\* Space goes down during a drag: the rect and the start point are those of
\* that moment
SpacePressKeeps ==
  (InDrag /\ ~SpaceHeld(draw) /\ SpaceHeld(draw')) =>
    /\ SameSize
    /\ draw'.tool.startPoint = draw.tool.startPoint

\* while Space is down the rect keeps its signed width and height (Shift
\* and Alt left as they are)
SpaceKeepsSize ==
  (InDrag /\ SpaceHeld(draw) /\ SpaceHeld(draw') /\ SameKeys) => SameSize

\* while Space is down the start point is the one of the press, moved by
\* the displacement of the cursor since the press
SpaceMovesStart ==
  (InDrag /\ SpaceHeld(draw) /\ SpaceHeld(draw')) =>
    LET t == draw.tool
        t1 == draw'.tool
    IN /\ t1.startPointWhenSpaceDown = t.startPointWhenSpaceDown
       /\ t1.lastDragPointWhenSpaceDown = t.lastDragPointWhenSpaceDown
       /\ t1.startPoint =
            Pt(t.startPointWhenSpaceDown[1].x
                 + (t1.lastDragPoint[1].x - t.lastDragPointWhenSpaceDown[1].x),
               t.startPointWhenSpaceDown[1].y
                 + (t1.lastDragPoint[1].y - t.lastDragPointWhenSpaceDown[1].y))

\* the dragged extents, cursor - start point, do not change while Space is
\* down
SpaceKeepsExtents ==
  (InDrag /\ SpaceHeld(draw) /\ SpaceHeld(draw')) =>
    /\ draw'.tool.lastDragPoint[1].x - draw'.tool.startPoint.x
         = draw.tool.lastDragPoint[1].x - draw.tool.startPoint.x
    /\ draw'.tool.lastDragPoint[1].y - draw'.tool.startPoint.y
         = draw.tool.lastDragPoint[1].y - draw.tool.startPoint.y

\* when Space is up the start point stays where it is: at its release and in
\* the resizing after it
SpaceReleaseKeeps ==
  /\ (InDrag /\ ~SpaceHeld(draw')) => draw'.tool.startPoint = draw.tool.startPoint
  /\ (InDrag /\ SpaceHeld(draw) /\ ~SpaceHeld(draw')) => draw'.rect = draw.rect

\* C26: from the press of Space during a drag until its release every
\* updateRect keeps the signed width and height the rect had when Space was
\* pressed and moves the start point by the displacement of the cursor since
\* then; after the release the start point stays where it was moved to.
C26_SpaceMovesRigidly ==
  [][SpacePressKeeps /\ SpaceKeepsSize /\ SpaceMovesStart /\ SpaceReleaseKeeps]_vars

\* what does hold of Space: the start point follows the cursor from the
\* recorded points, the dragged extents are kept while it is down, and the
\* start point stays after the release
SpaceFollowsRecordedPoints ==
  [][SpaceMovesStart /\ SpaceKeepsExtents /\ SpaceReleaseKeeps]_vars

====
